---------------------------- MODULE Spec2Model ----------------------------
(***************************************************************************)
(* InShape shape-similarity engine (ACM/backend/algorithm.py).             *)
(*                                                                         *)
(* Three state machines share this module:                                 *)
(*   Spec       best_overlap_iou: preparation of the GPS track and of the  *)
(*              target, coarse and fine rotation search, diagnostics.      *)
(*   SpecScore  the overlap scorer (iou, region_signed_score) applied to   *)
(*              every pair of occupancy grids of the bounded size.         *)
(*   SpecParse  parse_svg_input / parse_svg_path, one token-loop iteration *)
(*              per step.                                                  *)
(*                                                                         *)
(* Numbers.  Python floats are modelled by exact rationals.  A scalar is a *)
(* record [n, d] with d > 0; a point array is a record [pts, den] whose    *)
(* points are integer pairs over the common denominator den.  Percentages  *)
(* rounded to one decimal are integers counting tenths of a percent.       *)
(*                                                                         *)
(* Rasterisation.  matplotlib's Path.contains_points and the rotation by   *)
(* cos/sin are not computed: the mask of a rotated polygon is any grid of  *)
(* a bounded family, chosen when the polygon is first rasterised and kept  *)
(* in `raster` so that the same array always rasterises to the same mask.  *)
(***************************************************************************)
EXTENDS Integers, Sequences, FiniteSets, TLC

VARIABLES
    gps_latlng,     \* best_overlap_iou argument: the GPS track
    svg_path,       \* best_overlap_iou argument: the target shape text
    coarse_step,    \* best_overlap_iou argument
    fine_step,      \* best_overlap_iou argument
    pc,             \* position in best_overlap_iou
    gps_norm,       \* local: normalised GPS points
    svg_pts,        \* local: parsed target points
    target_norm,    \* local: normalised target points
    tgt_mask,       \* local: filled target mask
    raster,         \* rasteriser memory: rotated-array key -> filled mask
    best_score,     \* local
    best_angle,     \* local
    ang,            \* local: loop variable of the current pass
    start,          \* local: first angle of the fine window
    end,            \* local: last angle of the fine window
    coarse_best,    \* history: best_angle and best_score when the coarse pass ended
    evals,          \* history: every (pass, angle, score) evaluated
    diag,           \* history: the masks and counts the diagnostics used
    result,         \* the returned dictionary
    error,          \* the exception that left best_overlap_iou
    parser,         \* parse_svg_input / parse_svg_path call
    scorer,         \* scorer call
    grader,         \* the caller's view of one graded comparison
    normalizer,     \* center_and_scale call, and the call on its own result
    procrustes,     \* shape_similarity call
    calls,          \* concurrent invocations, each with its own locals
    rasterizer,     \* polygon_mask and gps_path_mask calls on one grid size
    handler         \* grade_activity request

vars == <<gps_latlng, svg_path, coarse_step, fine_step, pc, gps_norm, svg_pts,
          target_norm, tgt_mask, raster, best_score, best_angle, ang, start,
          end, coarse_best, evals, diag, result, error, parser, scorer,
          grader, normalizer, procrustes, calls, rasterizer, handler>>

engineVars == <<gps_latlng, svg_path, coarse_step, fine_step, pc, gps_norm,
                svg_pts, target_norm, tgt_mask, raster, best_score, best_angle,
                ang, start, end, coarse_best, evals, diag, result, error>>

searchVars == <<engineVars, grader>>

serviceVars == <<rasterizer, handler>>

callVars == <<normalizer, procrustes, calls, serviceVars>>

-----------------------------------------------------------------------------
(* Bounds of the model *)

\* side of the occupancy grid (grid_size)
GridSize == 2
\* longest GPS track
MaxTrack == 3
\* most path fragments concatenated into one path string
MaxFragments == 3
\* longest point sequence given to the normaliser
MaxPoints == 3
\* the normaliser's points have x in 0 .. NormWidth and y in 0 .. NormHeight
NormWidth == 2
NormHeight == 1

-----------------------------------------------------------------------------
(* Exact rationals standing for floats *)

Abs(x) == IF x < 0 THEN -x ELSE x

Max(a, b) == IF a >= b THEN a ELSE b

Rat(n, d) == [n |-> n, d |-> d]

\* a > b, comparing integer parts first so that the products stay small
RatGT(a, b) ==
    LET qa == a.n \div a.d
        qb == b.n \div b.d
    IN  IF qa # qb THEN qa > qb
        ELSE (a.n % a.d) * b.d > (b.n % b.d) * a.d

RatEq(a, b) == ~RatGT(a, b) /\ ~RatGT(b, a)

RatGE(a, b) == ~RatGT(b, a)

\* a * 100
Times100(a) == Rat(100 * a.n, a.d)

\* np.clip(a, lo, hi) for integer lo <= hi
Clip(a, lo, hi) ==
    IF RatGT(Rat(lo, 1), a) THEN Rat(lo, 1)
    ELSE IF RatGT(a, Rat(hi, 1)) THEN Rat(hi, 1)
    ELSE a

\* round(a, 1), in tenths: the nearest tenth, an exact tie going to the even one
Round1(a) ==
    LET q == (10 * a.n) \div a.d
        r == (10 * a.n) % a.d
    IN  IF 2 * r < a.d THEN q
        ELSE IF 2 * r > a.d THEN q + 1
        ELSE IF q % 2 = 0 THEN q ELSE q + 1

-----------------------------------------------------------------------------
(* Occupancy grids: a boolean GridSize x GridSize array is the set of its  *)
(* true cells <<row, col>>                                                 *)

Cells == (0 .. GridSize - 1) \X (0 .. GridSize - 1)

Masks == SUBSET Cells

\* np.zeros((grid_size, grid_size), dtype=bool)
Zeros == {}

logical_and(a, b) == a \cap b

logical_or(a, b) == a \cup b

logical_not(a) == Cells \ a

\* mask.sum()
Area(mask) == Cardinality(mask)

-----------------------------------------------------------------------------
(* Overlap scorer *)

\* the intersection over the target's area instead of the union's
iou_over_target(mask_a, mask_b) ==
    LET inter == Area(logical_and(mask_a, mask_b))
        union == Area(mask_b)
    IN  IF union > 0 THEN Rat(inter, union) ELSE Rat(0, 1)

iou(mask_a, mask_b) ==
    LET inter == Area(logical_and(mask_a, mask_b))
        union == Area(logical_or(mask_a, mask_b))
    IN  IF union > 0 THEN Rat(inter, union) ELSE Rat(0, 1)

\* the symmetric weighting: extra area counted in full
region_signed_score_symmetric(mask_gps_poly, mask_target) ==
    LET overlap_area      == Area(logical_and(mask_gps_poly, mask_target))
        missing_mask_area == Area(logical_and(mask_target, logical_not(mask_gps_poly)))
        extra_route_area  == Area(logical_and(mask_gps_poly, logical_not(mask_target)))
        total_mask_area   == Area(mask_target)
    IN  IF total_mask_area = 0 THEN Rat(0, 1)
        ELSE Rat(100 * (overlap_area - missing_mask_area - extra_route_area),
                 total_mask_area)

\* raw = overlap - 1.0 * missing - 0.3 * extra, in tenths of a cell;
\* the returned value is raw / total * 100, a percentage
region_signed_score(mask_gps_poly, mask_target) ==
    LET overlap_area      == Area(logical_and(mask_gps_poly, mask_target))
        missing_mask_area == Area(logical_and(mask_target, logical_not(mask_gps_poly)))
        extra_route_area  == Area(logical_and(mask_gps_poly, logical_not(mask_target)))
        total_mask_area   == Area(mask_target)
        raw_score10       == 10 * overlap_area - 10 * missing_mask_area
                                - 3 * extra_route_area
    IN  IF total_mask_area = 0 THEN Rat(0, 1)
        ELSE Rat(100 * raw_score10, 10 * total_mask_area)

\* "overlap_iou_pct": round(iou_score * 100, 1)
overlap_iou_pct(iou_score) == Round1(Times100(iou_score))

-----------------------------------------------------------------------------
(* Point arrays: [pts |-> <<<<x1, y1>>, ...>>, den |-> d] is the N x 2 array *)
(* of the points (xi / d, yi / d)                                          *)

Arr(pts, den) == [pts |-> pts, den |-> den]

NoArr == Arr(<<>>, 1)

RECURSIVE GCD(_, _)
GCD(a, b) == IF b = 0 THEN Abs(a) ELSE GCD(b, a % Abs(b))

\* sums, gcds and maxima of s[lo .. hi], by halves
RECURSIVE SumRange(_, _, _)
SumRange(s, lo, hi) ==
    IF lo > hi THEN 0
    ELSE IF lo = hi THEN s[lo]
    ELSE LET mid == (lo + hi) \div 2
         IN  SumRange(s, lo, mid) + SumRange(s, mid + 1, hi)

RECURSIVE GCDRange(_, _, _)
GCDRange(s, lo, hi) ==
    IF lo > hi THEN 0
    ELSE IF lo = hi THEN Abs(s[lo])
    ELSE LET mid == (lo + hi) \div 2
         IN  GCD(GCDRange(s, lo, mid), GCDRange(s, mid + 1, hi))

RECURSIVE MaxRange(_, _, _)
MaxRange(s, lo, hi) ==
    IF lo > hi THEN 0
    ELSE IF lo = hi THEN s[lo]
    ELSE LET mid == (lo + hi) \div 2
         IN  Max(MaxRange(s, lo, mid), MaxRange(s, mid + 1, hi))

SeqSum(s) == SumRange(s, 1, Len(s))

SeqGCD(s) == GCDRange(s, 1, Len(s))

SeqMax(s) == MaxRange(s, 1, Len(s))

Column(pts, k) == [i \in 1 .. Len(pts) |-> pts[i][k]]

\* np.max(np.abs(a)), as a numerator over a.den
MaxAbs(pts) ==
    Max(SeqMax([i \in 1 .. Len(pts) |-> Abs(pts[i][1])]),
        SeqMax([i \in 1 .. Len(pts) |-> Abs(pts[i][2])]))

\* the same array in lowest terms, so that equal arrays are equal values
Reduce(a) ==
    LET g == GCD(a.den, GCD(SeqGCD(Column(a.pts, 1)), SeqGCD(Column(a.pts, 2))))
    IN  Arr([i \in 1 .. Len(a.pts) |-> <<a.pts[i][1] \div g, a.pts[i][2] \div g>>],
            a.den \div g)

AllZero(a) == \A i \in 1 .. Len(a.pts) : a.pts[i] = <<0, 0>>

\* np.mean(a, axis=0) subtracted from a
SubtractMean(a) ==
    LET n  == Len(a.pts)
        sx == SeqSum(Column(a.pts, 1))
        sy == SeqSum(Column(a.pts, 2))
    IN  Reduce(Arr([i \in 1 .. n |-> <<n * a.pts[i][1] - sx, n * a.pts[i][2] - sy>>],
                   n * a.den))

-----------------------------------------------------------------------------
(* Exceptions and returns *)

Exc(type, msg) == [type |-> type, msg |-> msg]

NoError == Exc("", "")

Return(v) == [ok |-> TRUE, val |-> v, exc |-> NoError]

Raise(e) == [ok |-> FALSE, val |-> NoArr, exc |-> e]

GpsRouteError ==
    Exc("ValueError", "GPS_ROUTE must be a list of [lat, lng] with at least 2 points.")

NormalizeError == Exc("ValueError", "Need at least 2 points to normalize.")

EmptySvgError == Exc("ValueError", "TARGET_SVG is empty or invalid.")

NoPointsError == Exc("ValueError", "Parsed SVG produced 0 points.")

UnsupportedSvgError ==
    Exc("ValueError",
        "SVG did not contain a supported <path>, <ellipse>, <circle>, or <rect> element.")

\* float("L"): a command letter where a number is read
FloatError == Exc("ValueError", "could not convert string to float")

\* tokens[i+k] past the end, pts[0] of an empty list
IndexError == Exc("IndexError", "list index out of range")

-----------------------------------------------------------------------------
(* GPS: lat/lng -> local XY *)

\* R * pi / 180 for R = 6371000.0, to the metre
MetersPerDegree == 111195

\* cos(radians(lat0)) for the mean latitudes whose cosine is rational
CosDegrees(lat0) ==
    CASE lat0.n = 0            -> Rat(1, 1)
      [] lat0.n = 60 * lat0.d  -> Rat(1, 2)
      [] lat0.n = -60 * lat0.d -> Rat(1, 2)

\* A list given to np.array is [width |-> w, rows |-> <<...>>]: w is the
\* length of every row (0 for a flat list of numbers); rows keeps the first
\* two entries of each row.
NdArray(points) ==
    [ndim  |-> IF points.rows = <<>> \/ points.width = 0 THEN 1 ELSE 2,
     shape |-> <<Len(points.rows), points.width>>,
     rows  |-> points.rows]

\* x = R * radians(lng - lng0) * cos(radians(lat0)),
\* y = R * radians(lat - lat0), with lat0 and lng0 the means
Equirectangular(rows) ==
    LET n    == Len(rows)
        slat == SeqSum(Column(rows, 1))
        slng == SeqSum(Column(rows, 2))
        c    == CosDegrees(Rat(slat, n))
        xy   == [i \in 1 .. n |->
                   <<MetersPerDegree * (n * rows[i][2] - slng) * c.n,
                     MetersPerDegree * (n * rows[i][1] - slat) * c.d>>]
    IN  Reduce(Arr(xy, n * c.d))

\* the length test weakened to "at least 1 point"
latlng_to_xy_min1(points) ==
    LET arr == NdArray(points)
    IN  IF arr.ndim # 2 \/ arr.shape[2] # 2 \/ arr.shape[1] < 1
        THEN Raise(GpsRouteError)
        ELSE Return(Equirectangular(arr.rows))

latlng_to_xy(points) ==
    LET arr == NdArray(points)
    IN  IF arr.ndim # 2 \/ arr.shape[2] # 2 \/ arr.shape[1] < 2
        THEN Raise(GpsRouteError)
        ELSE Return(Equirectangular(arr.rows))

-----------------------------------------------------------------------------
(* Normalize: center + scale (aspect kept) *)

\* the zero-extent test left out: the division by max_dim = 0 yields an
\* array of NaN, written as an array over the denominator 0
center_and_scale_unguarded(points) ==
    IF Len(points.pts) < 2
    THEN Raise(NormalizeError)
    ELSE
      LET centered == SubtractMean(points)
          max_dim  == MaxAbs(centered.pts)
      IN  IF max_dim = 0
          THEN Return(Arr(centered.pts, 0))
          ELSE Return(SubtractMean(Reduce(
                 Arr([i \in 1 .. Len(centered.pts) |->
                        <<85 * centered.pts[i][1], 85 * centered.pts[i][2]>>],
                     100 * max_dim))))

\* each axis divided by its own extent
center_and_scale_per_axis(points) ==
    IF Len(points.pts) < 2
    THEN Raise(NormalizeError)
    ELSE
      LET centered == SubtractMean(points)
          max_dim  == MaxAbs(centered.pts)
          ex == SeqMax([i \in 1 .. Len(centered.pts) |-> Abs(centered.pts[i][1])])
          ey == SeqMax([i \in 1 .. Len(centered.pts) |-> Abs(centered.pts[i][2])])
          mx == IF ex = 0 THEN 1 ELSE ex
          my == IF ey = 0 THEN 1 ELSE ey
      IN  IF max_dim <= 0
          THEN Return(centered)
          ELSE Return(SubtractMean(Reduce(
                 Arr([i \in 1 .. Len(centered.pts) |->
                        <<85 * centered.pts[i][1] * my,
                          85 * centered.pts[i][2] * mx>>],
                     100 * mx * my))))

\* scaled = centered * 0.85, the division by max_dim left out
center_and_scale_shrink(points) ==
    IF Len(points.pts) < 2
    THEN Raise(NormalizeError)
    ELSE
      LET centered == SubtractMean(points)
          max_dim  == MaxAbs(centered.pts)
      IN  IF max_dim <= 0
          THEN Return(centered)
          ELSE Return(SubtractMean(Reduce(
                 Arr([i \in 1 .. Len(centered.pts) |->
                        <<85 * centered.pts[i][1], 85 * centered.pts[i][2]>>],
                     100 * centered.den))))

\* every array of the model is two-dimensional, so points.ndim != 2 is false
center_and_scale(points) ==
    IF Len(points.pts) < 2
    THEN Raise(NormalizeError)
    ELSE
      LET centered == SubtractMean(points)
          \* max_dim is MaxAbs / centered.den
          max_dim  == MaxAbs(centered.pts)
      IN  IF max_dim <= 0
          THEN Return(centered)
          ELSE
            \* scaled = centered / max_dim * 0.85
            LET scaled == Reduce(Arr([i \in 1 .. Len(centered.pts) |->
                                        <<85 * centered.pts[i][1],
                                          85 * centered.pts[i][2]>>],
                                     100 * max_dim))
            \* scaled - np.mean(scaled, axis=0)
            IN  Return(SubtractMean(scaled))

-----------------------------------------------------------------------------
(* SVG path parsing *)

(* A path string is a sequence of lexemes separated by blanks or commas:   *)
(* a command letter, a number, or text the token pattern does not match.   *)
Cmd(c) == [k |-> "cmd", c |-> c, v |-> 0]

Num(v) == [k |-> "num", c |-> "", v |-> v]

Junk == [k |-> "junk", c |-> "", v |-> 0]

\* re.findall(r"[MLCQHVZz]|[-+]?\d*\.?\d+", s)
FindTokens(path_string) == SelectSeq(path_string, LAMBDA x : x.k # "junk")

\* the points parse_svg_path collects are numerators over PathDen, the
\* denominator of a cubic sampled at t = j / 110
LinspaceDen == 110

PathDen == LinspaceDen * LinspaceDen * LinspaceDen

\* np.linspace(0.1, 1.0, 12) and np.linspace(0.1, 1.0, 10), over LinspaceDen
CubicSamples == 12

QuadSamples == 10

\* twelve parameters from 0 to 1
CubicTFromZero == [j \in 1 .. CubicSamples |-> 10 * (j - 1)]

CubicT == [j \in 1 .. CubicSamples |-> 11 + 9 * (j - 1)]

QuadT == [j \in 1 .. QuadSamples |-> 11 * j]

\* cubic(p0, p1, p2, p3, t) for t = a / 110 and integer control points
cubic(p0, p1, p2, p3, a) ==
    LET mt == LinspaceDen - a
    IN  <<mt * mt * mt * p0[1] + 3 * mt * mt * a * p1[1]
            + 3 * mt * a * a * p2[1] + a * a * a * p3[1],
          mt * mt * mt * p0[2] + 3 * mt * mt * a * p1[2]
            + 3 * mt * a * a * p2[2] + a * a * a * p3[2]>>

\* quad(p0, p1, p2, t) for t = a / 110 and integer control points
quad(p0, p1, p2, a) ==
    LET mt == LinspaceDen - a
    IN  <<LinspaceDen * (mt * mt * p0[1] + 2 * mt * a * p1[1] + a * a * p2[1]),
          LinspaceDen * (mt * mt * p0[2] + 2 * mt * a * p1[2] + a * a * p2[2])>>

\* a point with integer coordinates, as numerators over PathDen
Float2(p) == <<PathDen * p[1], PathDen * p[2]>>

\* np.allclose of two coordinates a / den and b / den:
\* |a - b| <= 1e-8 + 1e-5 * |b|, that is diff * 10^8 <= den + 1000 * |b|;
\* both sides are divided by 1000 and a large diff is settled first, so that
\* the products stay small
Close1(a, b, den) ==
    LET diff == Abs(a - b)
    IN  diff = 0 \/ (diff <= 20000 /\ diff * 100000 <= den \div 1000 + Abs(b))

allclose(p, q, den) == Close1(p[1], q[1], den) /\ Close1(p[2], q[2], den)

\* tokens[i + j] for the 0-based index i of the source
Tok(tokens, i, j) == tokens[i + j + 1]

\* reading float(tokens[i+1]) ... float(tokens[i+need]) in order: the first
\* read that fails, 0 when all succeed
FirstBadArg(tokens, i, need) ==
    LET bad == {j \in 1 .. need :
                   i + j >= Len(tokens) \/ Tok(tokens, i, j).k # "num"}
    IN  IF bad = {} THEN 0 ELSE CHOOSE j \in bad : \A m \in bad : j <= m

ArgError(tokens, i, j) ==
    IF i + j >= Len(tokens) THEN IndexError ELSE FloatError

Arg(tokens, i, j) == Tok(tokens, i, j).v

ParserIdle ==
    [pc |-> "idle", svg_text |-> <<>>, tokens |-> <<>>, i |-> 0, pts |-> <<>>,
     cur |-> <<0, 0>>, start |-> <<0, 0>>, exc |-> NoError, ret |-> NoArr,
     gap |-> 0]

\* lines 45-53: tokenise, reject an empty token list, initialise the locals
ParserEnter(path_string) ==
    LET tokens == FindTokens(path_string)
    IN  IF tokens = <<>>
        THEN [ParserIdle EXCEPT !.pc = "raised", !.exc = EmptySvgError]
        ELSE [ParserIdle EXCEPT !.pc = "loop", !.tokens = tokens]

ParserRaise(st, e) == [st EXCEPT !.pc = "raised", !.exc = e]

\* one command that reads `need` numbers
ReadArgs(st, need, then) ==
    LET j == FirstBadArg(st.tokens, st.i, need)
    IN  IF j # 0 THEN ParserRaise(st, ArgError(st.tokens, st.i, j)) ELSE then

\* close-path appending the first point unconditionally
ClosePathAlways(st) ==
    IF st.pts = <<>>
    THEN ParserRaise(st, IndexError)
    ELSE [st EXCEPT !.pts = Append(st.pts, st.pts[1]), !.i = st.i + 1]

\* lines 110-113
ClosePath(st) ==
    IF st.pts = <<>>
    THEN ParserRaise(st, IndexError)
    ELSE IF ~allclose(st.pts[1], st.pts[Len(st.pts)], PathDen)
    THEN [st EXCEPT !.pts = Append(st.pts, st.pts[1]), !.i = st.i + 1]
    ELSE [st EXCEPT !.i = st.i + 1]

\* an unrecognised token that is looked at again
SkipTokenStuck(st) == st

\* lines 114-116: a number where a command is expected is skipped
SkipToken(st) == [st EXCEPT !.i = st.i + 1]

\* one iteration of `while i < len(tokens)`, lines 73-116
LoopBody(st) ==
    LET t   == st.tokens
        i   == st.i
        cmd == IF Tok(t, i, 0).k = "cmd" THEN Tok(t, i, 0).c ELSE ""
    IN  CASE cmd = "M" ->
               ReadArgs(st, 2,
                 LET cur == <<Arg(t, i, 1), Arg(t, i, 2)>>
                 IN  [st EXCEPT !.cur = cur, !.start = cur,
                                !.pts = Append(st.pts, Float2(cur)), !.i = i + 3])
          [] cmd = "L" ->
               ReadArgs(st, 2,
                 LET cur == <<Arg(t, i, 1), Arg(t, i, 2)>>
                 IN  [st EXCEPT !.cur = cur,
                                !.pts = Append(st.pts, Float2(cur)), !.i = i + 3])
          [] cmd = "H" ->
               ReadArgs(st, 1,
                 LET cur == <<Arg(t, i, 1), st.cur[2]>>
                 IN  [st EXCEPT !.cur = cur,
                                !.pts = Append(st.pts, Float2(cur)), !.i = i + 2])
          [] cmd = "V" ->
               ReadArgs(st, 1,
                 LET cur == <<st.cur[1], Arg(t, i, 1)>>
                 IN  [st EXCEPT !.cur = cur,
                                !.pts = Append(st.pts, Float2(cur)), !.i = i + 2])
          [] cmd = "C" ->
               ReadArgs(st, 6,
                 LET p1 == <<Arg(t, i, 1), Arg(t, i, 2)>>
                     p2 == <<Arg(t, i, 3), Arg(t, i, 4)>>
                     p3 == <<Arg(t, i, 5), Arg(t, i, 6)>>
                 IN  [st EXCEPT !.cur = p3,
                                !.pts = st.pts \o [j \in 1 .. CubicSamples |->
                                           cubic(st.cur, p1, p2, p3, CubicT[j])],
                                !.i = i + 7])
          [] cmd = "Q" ->
               ReadArgs(st, 4,
                 LET p1 == <<Arg(t, i, 1), Arg(t, i, 2)>>
                     p2 == <<Arg(t, i, 3), Arg(t, i, 4)>>
                 IN  [st EXCEPT !.cur = p2,
                                !.pts = st.pts \o [j \in 1 .. QuadSamples |->
                                           quad(st.cur, p1, p2, QuadT[j])],
                                !.i = i + 5])
          [] cmd \in {"z", "Z"} -> ClosePath(st)
          [] OTHER -> SkipToken(st)

\* lines 118-121: arr.size == 0 raises, otherwise the array is returned
LoopExit(st) ==
    IF st.pts = <<>>
    THEN ParserRaise(st, NoPointsError)
    ELSE [st EXCEPT !.pc = "returned", !.ret = Arr(st.pts, PathDen)]

ParserStep(st) ==
    IF st.i < Len(st.tokens) THEN LoopBody(st) ELSE LoopExit(st)

RECURSIVE ParserRun(_)
ParserRun(st) == IF st.pc = "loop" THEN ParserRun(ParserStep(st)) ELSE st

Outcome(st) == IF st.pc = "returned" THEN Return(st.ret) ELSE Raise(st.exc)

parse_svg_path(path_string) == Outcome(ParserRun(ParserEnter(path_string)))

-----------------------------------------------------------------------------
(* SVG convenience: a full <svg> with shapes *)

\* the 24 x 24 viewBox centre
ViewBoxCenter == 12

\* points + (viewbox_center - centroid)
center_svg_points(points) ==
    IF Len(points.pts) < 2 THEN points
    ELSE
      LET n  == Len(points.pts)
          sx == SeqSum(Column(points.pts, 1))
          sy == SeqSum(Column(points.pts, 2))
          c  == ViewBoxCenter * n * points.den
      IN  Reduce(Arr([i \in 1 .. n |->
                        <<n * points.pts[i][1] - sx + c,
                          n * points.pts[i][2] - sy + c>>],
                     n * points.den))

\* np.linspace(0, 2*np.pi, 256, endpoint=True): cos and sin of the 256
\* angles, in hundredths
TurnSamples == 256

TrigDen == 100

CosTable ==
    <<100, 100, 100, 100, 100, 99, 99, 99, 98, 98, 97, 96, 96, 95, 94, 93,
      92, 91, 90, 89, 88, 87, 86, 84, 83, 82, 80, 79, 77, 76, 74, 72,
      70, 69, 67, 65, 63, 61, 59, 57, 55, 53, 51, 49, 47, 45, 42, 40,
      38, 36, 33, 31, 29, 26, 24, 21, 19, 17, 14, 12, 9, 7, 4, 2,
      -1, -3, -6, -8, -10, -13, -15, -18, -20, -23, -25, -27, -30, -32, -34, -37,
      -39, -41, -43, -46, -48, -50, -52, -54, -56, -58, -60, -62, -64, -66, -68, -70,
      -71, -73, -75, -76, -78, -79, -81, -82, -84, -85, -86, -88, -89, -90, -91, -92,
      -93, -94, -95, -95, -96, -97, -97, -98, -98, -99, -99, -99, -100, -100, -100, -100,
      -100, -100, -100, -100, -99, -99, -99, -98, -98, -97, -97, -96, -95, -95, -94, -93,
      -92, -91, -90, -89, -88, -86, -85, -84, -82, -81, -79, -78, -76, -75, -73, -71,
      -70, -68, -66, -64, -62, -60, -58, -56, -54, -52, -50, -48, -46, -43, -41, -39,
      -37, -34, -32, -30, -27, -25, -23, -20, -18, -15, -13, -10, -8, -6, -3, -1,
      2, 4, 7, 9, 12, 14, 17, 19, 21, 24, 26, 29, 31, 33, 36, 38,
      40, 42, 45, 47, 49, 51, 53, 55, 57, 59, 61, 63, 65, 67, 69, 70,
      72, 74, 76, 77, 79, 80, 82, 83, 84, 86, 87, 88, 89, 90, 91, 92,
      93, 94, 95, 96, 96, 97, 98, 98, 99, 99, 99, 100, 100, 100, 100, 100>>

SinTable ==
    <<0, 2, 5, 7, 10, 12, 15, 17, 20, 22, 24, 27, 29, 31, 34, 36,
      38, 41, 43, 45, 47, 49, 52, 54, 56, 58, 60, 62, 64, 66, 67, 69,
      71, 73, 74, 76, 78, 79, 81, 82, 83, 85, 86, 87, 88, 90, 91, 92,
      93, 93, 94, 95, 96, 97, 97, 98, 98, 99, 99, 99, 100, 100, 100, 100,
      100, 100, 100, 100, 99, 99, 99, 98, 98, 97, 97, 96, 95, 95, 94, 93,
      92, 91, 90, 89, 88, 87, 85, 84, 83, 81, 80, 78, 77, 75, 73, 72,
      70, 68, 66, 65, 63, 61, 59, 57, 55, 53, 51, 48, 46, 44, 42, 40,
      37, 35, 33, 30, 28, 26, 23, 21, 18, 16, 14, 11, 9, 6, 4, 1,
      -1, -4, -6, -9, -11, -14, -16, -18, -21, -23, -26, -28, -30, -33, -35, -37,
      -40, -42, -44, -46, -48, -51, -53, -55, -57, -59, -61, -63, -65, -66, -68, -70,
      -72, -73, -75, -77, -78, -80, -81, -83, -84, -85, -87, -88, -89, -90, -91, -92,
      -93, -94, -95, -95, -96, -97, -97, -98, -98, -99, -99, -99, -100, -100, -100, -100,
      -100, -100, -100, -100, -99, -99, -99, -98, -98, -97, -97, -96, -95, -94, -93, -93,
      -92, -91, -90, -88, -87, -86, -85, -83, -82, -81, -79, -78, -76, -74, -73, -71,
      -69, -67, -66, -64, -62, -60, -58, -56, -54, -52, -49, -47, -45, -43, -41, -38,
      -36, -34, -31, -29, -27, -24, -22, -20, -17, -15, -12, -10, -7, -5, -2, 0>>

\* the <ellipse> and <circle> branches, lines 160-166 and 172-178; the
\* last sample repeats the first, so np.allclose holds and nothing is stacked
EllipsePoints(cx, cy, rx, ry) ==
    LET pts == [j \in 1 .. TurnSamples |->
                  <<TrigDen * cx + rx * CosTable[j], TrigDen * cy + ry * SinTable[j]>>]
        closed == IF ~allclose(pts[1], pts[TurnSamples], TrigDen)
                  THEN Append(pts, pts[1]) ELSE pts
    IN  center_svg_points(Arr(closed, TrigDen))

\* t[-1] is 2 * pi, where np.cos is 1.0 but np.sin is -2.449e-16 and not 0:
\* the last y is cy + ry * np.sin(t[-1]), the binary64 number LastSampleDrop
\* places below cy for 8 < cy < 16, where neighbouring numbers are 2^-49 =
\* 1.776e-15 apart (2.449e-16 / 1.776e-15 = 0.13788), and the first y is cy.
\* center_svg_points adds 12 - centroid, a multiple of 2^-49 here, to both.
\* The arrays of this module hold the samples to two decimals; the drop is
\* kept beside them.
LastSampleDrop(cy, ry) == (ry * 13788 + 50000) \div 100000

\* units in the last place between the y of the first and of the last point
\* returned for the markup s
ClosureGap(s) ==
    IF ~s.xml \/ s.d # <<>> THEN 0
    ELSE IF s.ellipse # <<>> THEN LastSampleDrop(s.ellipse[2], s.ellipse[4])
    ELSE IF s.circle # <<>> THEN LastSampleDrop(s.circle[2], s.circle[3])
    ELSE 0

\* a rectangle that is not led back to its first corner
RectPointsOpen(x, y, w, h) ==
    center_svg_points(Arr(<<<<x, y>>, <<x + w, y>>, <<x + w, y + h>>,
                            <<x, y + h>>>>, 1))

\* the <rect> branch, lines 184-190
RectPoints(x, y, w, h) ==
    center_svg_points(Arr(<<<<x, y>>, <<x + w, y>>, <<x + w, y + h>>,
                            <<x, y + h>>, <<x, y>>>>, 1))

(* svg_text is [xml, text, d, ellipse, circle, rect, x, y]: xml says that   *)
(* the stripped text starts with '<'; text is the raw path string          *)
(* otherwise; d, ellipse, circle, rect, x, y are the groups the regular    *)
(* expressions capture, <<>> when the expression does not match.           *)
SvgText(xml, text, d, ellipse, circle, rect, x, y) ==
    [xml |-> xml, text |-> text, d |-> d, ellipse |-> ellipse,
     circle |-> circle, rect |-> rect, x |-> x, y |-> y]

RawPath(text) == SvgText(FALSE, text, <<>>, <<>>, <<>>, <<>>, <<>>, <<>>)

Markup(d, ellipse, circle, rect, x, y) ==
    SvgText(TRUE, <<>>, d, ellipse, circle, rect, x, y)

\* the primitive branches of parse_svg_input, lines 155-192
ParsePrimitive(s) ==
    IF s.ellipse # <<>>
    THEN Return(EllipsePoints(s.ellipse[1], s.ellipse[2], s.ellipse[3], s.ellipse[4]))
    ELSE IF s.circle # <<>>
    THEN Return(EllipsePoints(s.circle[1], s.circle[2], s.circle[3], s.circle[3]))
    ELSE IF s.rect # <<>>
    THEN Return(RectPoints(IF s.x # <<>> THEN s.x[1] ELSE 0,
                           IF s.y # <<>> THEN s.y[1] ELSE 0,
                           s.rect[1], s.rect[2]))
    ELSE Raise(UnsupportedSvgError)

\* the path string parse_svg_input hands to parse_svg_path, <<>> when it
\* takes a primitive branch: a d attribute is captured with at least one
\* character, which the lexeme Junk stands for when it holds nothing else
UsesPath(s) == ~s.xml \/ s.d # <<>>

PathOf(s) == IF s.xml THEN s.d ELSE s.text

parse_svg_input(svg_text) ==
    IF UsesPath(svg_text)
    THEN parse_svg_path(PathOf(svg_text))
    ELSE ParsePrimitive(svg_text)

-----------------------------------------------------------------------------
(* Rasterisation *)

\* grids the filled GPS polygon and the stroked GPS path rasterise to: the
\* rows above a horizontal line
RowMasks == {{c \in Cells : c[1] < k} : k \in 0 .. GridSize}

\* grids the target polygon rasterises to: the columns left of a vertical line
ColMasks == {{c \in Cells : c[2] < k} : k \in 0 .. GridSize}

FullCircle == 360

\* gps_norm @ R.T for the rotation by deg degrees, kept symbolic: the array
\* and the angle.  An all-zero array is the same array at every angle.
Rotated(points, deg) ==
    [arr |-> points, deg |-> IF AllZero(points) THEN 0 ELSE deg]

Unrotated(points) == [arr |-> points, deg |-> 0]

\* polygon_mask(poly_norm, grid_size): all-false below 3 points; otherwise
\* the grid contains_points gives, the same one whenever the array is the same
polygon_mask(poly, memo, family) ==
    IF Len(poly.arr.pts) < 3 THEN {Zeros}
    ELSE IF poly \in DOMAIN memo THEN {memo[poly]}
    ELSE family

Remember(memo, poly, mask) ==
    IF Len(poly.arr.pts) < 3 THEN memo
    ELSE [k \in DOMAIN memo \cup {poly} |-> IF k = poly THEN mask ELSE memo[k]]

\* gps_path_mask(gps_norm, grid_size, stroke_norm): the union of the
\* thresholded distance fields of the segments
gps_path_mask == RowMasks

-----------------------------------------------------------------------------
(* Rotation search: best_overlap_iou *)

\* (ang + 360) % 360 without the reduction
WrapAngleRaw(a) == a

\* (ang + 360) % 360, lines 430 and 438
WrapAngle(a) == (a + FullCircle) % FullCircle

CoarseImprovesOrTies(val, best) == RatGE(val, best)

\* `if val > best_score`, line 422
CoarseImproves(val, best) == RatGT(val, best)

FineImprovesOrTies(val, best) == RatGE(val, best)

\* `if val > best_score`, line 436
FineImproves(val, best) == RatGT(val, best)

\* a fine window that starts at the coarse best itself
FineStartAtBest(best, step) == best

\* start = best_angle - coarse_step, line 427
FineStart(best, step) == best - step

\* a fine window that ends at the coarse best
FineEndAtBest(best, step) == best

\* end = best_angle + coarse_step, line 428
FineEnd(best, step) == best + step

\* best_score = -1e9
InitialBestScore == Rat(-1000000000, 1)

\* (inter / area) * 100 if area > 0 else 0.0
Coverage(inter, area) == IF area > 0 THEN Rat(100 * inter, area) ELSE Rat(0, 1)

\* the filled polygon's area as the denominator
cov_gps_filled(gps_mask_poly, gps_mask_line, mask_target) ==
    Coverage(Area(logical_and(gps_mask_poly, mask_target)), Area(gps_mask_poly))

\* cov_gps, lines 447-453
cov_gps(gps_mask_poly, gps_mask_line, mask_target) ==
    Coverage(Area(logical_and(gps_mask_poly, mask_target)), Area(gps_mask_line))

\* cov_target, lines 447-452
cov_target(gps_mask_poly, mask_target) ==
    Coverage(Area(logical_and(gps_mask_poly, mask_target)), Area(mask_target))

\* round(np.clip(signed_score, -1.0, 1.0) * 100, 1)
region_signed_pct(signed_score) == Round1(Times100(Clip(signed_score, -1, 1)))

NoResult == [returned |-> FALSE]

NoDiag == [computed |-> FALSE]

NoBest == [angle |-> -1, score |-> InitialBestScore]

Eval(pass, a, angle, val, before, took) ==
    [pass |-> pass, ang |-> a, angle |-> angle, val |-> val,
     before |-> before, took |-> took]

(* Inputs *)

PointA == <<60, 0>>

PointB == <<60, 1>>

\* tracks of at most MaxTrack points: A...A and A...AB
Tracks ==
    UNION {{[i \in 1 .. n |-> PointA],
            [i \in 1 .. n |-> IF i < n THEN PointA ELSE PointB]} :
              n \in 0 .. MaxTrack}

GpsInputs ==
    {[width |-> 2, rows |-> t] : t \in Tracks}
        \cup {[width |-> 3, rows |-> <<PointA, PointB>>]}

SquarePath ==
    <<Cmd("M"), Num(0), Num(0), Cmd("H"), Num(1), Cmd("V"), Num(1),
      Cmd("H"), Num(0), Cmd("Z")>>

SvgInputs ==
    {RawPath(<<>>),
     RawPath(<<Cmd("M"), Num(1)>>),
     RawPath(<<Cmd("M"), Num(0), Num(0)>>),
     RawPath(<<Cmd("M"), Num(0), Num(0), Cmd("L"), Num(1), Num(0)>>),
     RawPath(SquarePath),
     Markup(<<>>, <<>>, <<>>, <<2, 1>>, <<>>, <<>>),
     Markup(<<>>, <<>>, <<>>, <<>>, <<>>, <<>>)}

StepPairs == {<<120, 60>>, <<240, 230>>, <<400, 390>>}

ScorerIdle ==
    [pc |-> "idle", mask_a |-> Zeros, mask_b |-> Zeros, iou |-> Rat(0, 1),
     pct |-> 0, signed |-> Rat(0, 1)]

GraderIdle ==
    [pc |-> "idle", entry |-> "", ret |-> NoResult, exc |-> NoError,
     printed |-> FALSE]

NormalizerIdle == [pc |-> "idle"]

ProcrustesIdle ==
    [pc |-> "idle", A_pts |-> <<>>, B_pts |-> <<>>, K |-> 0,
     A_resampled |-> NoArr, B_resampled |-> NoArr, A |-> NoArr, B |-> NoArr,
     direction |-> 0, k |-> 0, best |-> 0, sims |-> {}, ret |-> Rat(0, 1)]

CallsIdle == <<>>

RasterizerIdle ==
    [pc |-> "idle", poly_norm |-> NoArr, gps_norm |-> NoArr, grid_size |-> 0,
     stroke_norm |-> 0, filled |-> <<>>, stroked |-> <<>>]

HandlerIdle ==
    [pc |-> "idle", shape |-> "", include_coordinates |-> FALSE,
     latlng |-> FALSE, shape_files |-> {}, grader_raises |-> FALSE,
     store_raises |-> FALSE, temp_gps_file |-> "", files |-> {},
     stored |-> FALSE, status |-> 0]

ServicesIdle ==
    /\ rasterizer = RasterizerIdle
    /\ handler = HandlerIdle

CallsAllIdle ==
    /\ normalizer = NormalizerIdle
    /\ procrustes = ProcrustesIdle
    /\ calls = CallsIdle
    /\ ServicesIdle

SearchIdle ==
    /\ grader = GraderIdle
    /\ gps_latlng = [width |-> 2, rows |-> <<>>]
    /\ svg_path = RawPath(<<>>)
    /\ coarse_step = 5
    /\ fine_step = 1
    /\ pc = "idle"
    /\ gps_norm = NoArr
    /\ svg_pts = NoArr
    /\ target_norm = NoArr
    /\ tgt_mask = Zeros
    /\ raster = <<>>
    /\ best_score = InitialBestScore
    /\ best_angle = 0
    /\ ang = 0
    /\ start = 0
    /\ end = 0
    /\ coarse_best = NoBest
    /\ evals = {}
    /\ diag = NoDiag
    /\ result = NoResult
    /\ error = NoError

Init ==
    /\ gps_latlng \in GpsInputs
    /\ svg_path \in SvgInputs
    /\ \E sp \in StepPairs : coarse_step = sp[1] /\ fine_step = sp[2]
    /\ pc = "prepare_gps"
    /\ gps_norm = NoArr
    /\ svg_pts = NoArr
    /\ target_norm = NoArr
    /\ tgt_mask = Zeros
    /\ raster = <<>>
    /\ best_score = InitialBestScore
    /\ best_angle = 0
    /\ ang = 0
    /\ start = 0
    /\ end = 0
    /\ coarse_best = NoBest
    /\ evals = {}
    /\ diag = NoDiag
    /\ result = NoResult
    /\ error = NoError
    /\ parser = ParserIdle
    /\ scorer = ScorerIdle
    /\ grader = GraderIdle
    /\ CallsAllIdle

RaiseFrom(e) ==
    /\ pc' = "raised"
    /\ error' = e

\* lines 400-402: gps_xy = latlng_to_xy(gps_latlng); gps_norm = center_and_scale(gps_xy)
PrepareGps ==
    /\ pc = "prepare_gps"
    /\ LET gps_xy == latlng_to_xy(gps_latlng)
           norm   == center_and_scale(gps_xy.val)
       IN  IF ~gps_xy.ok
           THEN RaiseFrom(gps_xy.exc) /\ UNCHANGED gps_norm
           ELSE IF ~norm.ok
           THEN RaiseFrom(norm.exc) /\ UNCHANGED gps_norm
           ELSE /\ gps_norm' = norm.val
                /\ pc' = "prepare_target"
                /\ UNCHANGED error
    /\ UNCHANGED <<gps_latlng, svg_path, coarse_step, fine_step, svg_pts,
                   target_norm, tgt_mask, raster, best_score, best_angle, ang,
                   start, end, coarse_best, evals, diag, result, parser, scorer,
                   grader, callVars>>

\* lines 404-413: svg_pts = parse_svg_input(svg_path); target_norm =
\* center_and_scale(svg_pts); tgt_mask = target_polygon_mask(target_norm,
\* grid_size); best_score = -1e9; best_angle = 0
PrepareTarget ==
    /\ pc = "prepare_target"
    /\ LET parsed == parse_svg_input(svg_path)
           norm   == center_and_scale(parsed.val)
       IN  IF ~parsed.ok
           THEN /\ RaiseFrom(parsed.exc)
                /\ UNCHANGED <<svg_pts, target_norm, tgt_mask, raster>>
           ELSE IF ~norm.ok
           THEN /\ RaiseFrom(norm.exc)
                /\ svg_pts' = parsed.val
                /\ UNCHANGED <<target_norm, tgt_mask, raster>>
           ELSE /\ svg_pts' = parsed.val
                /\ target_norm' = norm.val
                /\ \E m \in polygon_mask(Unrotated(norm.val), raster, ColMasks) :
                     /\ tgt_mask' = m
                     /\ raster' = Remember(raster, Unrotated(norm.val), m)
                /\ pc' = "coarse"
                /\ UNCHANGED error
    /\ best_score' = InitialBestScore
    /\ best_angle' = 0
    /\ ang' = 0
    /\ UNCHANGED <<gps_latlng, svg_path, coarse_step, fine_step, gps_norm,
                   start, end, coarse_best, evals, diag, result, parser, scorer,
                   grader, callVars>>

\* lines 414-424: one iteration of `for ang in range(0, 360, coarse_step)`
CoarseStep ==
    /\ pc = "coarse"
    /\ ang < FullCircle
    /\ LET gps_rot == Rotated(gps_norm, ang)
       IN  \E gps_poly_mask \in polygon_mask(gps_rot, raster, RowMasks) :
             LET val  == region_signed_score(gps_poly_mask, tgt_mask)
                 took == CoarseImproves(val, best_score)
             IN  /\ raster' = Remember(raster, gps_rot, gps_poly_mask)
                 /\ best_score' = IF took THEN val ELSE best_score
                 /\ best_angle' = IF took THEN ang ELSE best_angle
                 /\ evals' = evals \cup {Eval("coarse", ang, ang, val, best_score, took)}
    /\ ang' = ang + coarse_step
    /\ UNCHANGED <<gps_latlng, svg_path, coarse_step, fine_step, pc, gps_norm,
                   svg_pts, target_norm, tgt_mask, start, end, coarse_best,
                   diag, result, error, parser, scorer,
                   grader, callVars>>

\* lines 427-429: the coarse range is exhausted; start and end are fixed
CoarseEnd ==
    /\ pc = "coarse"
    /\ ang >= FullCircle
    /\ start' = FineStart(best_angle, coarse_step)
    /\ end' = FineEnd(best_angle, coarse_step)
    /\ ang' = FineStart(best_angle, coarse_step)
    /\ coarse_best' = [angle |-> best_angle, score |-> best_score]
    /\ pc' = "fine"
    /\ UNCHANGED <<gps_latlng, svg_path, coarse_step, fine_step, gps_norm,
                   svg_pts, target_norm, tgt_mask, raster, best_score,
                   best_angle, evals, diag, result, error, parser, scorer,
                   grader, callVars>>

\* lines 429-438: one iteration of `for ang in range(start, end + 1, fine_step)`
FineStep ==
    /\ pc = "fine"
    /\ ang < end + 1
    /\ LET gps_rot == Rotated(gps_norm, WrapAngle(ang))
       IN  \E gps_poly_mask \in polygon_mask(gps_rot, raster, RowMasks) :
             LET val  == region_signed_score(gps_poly_mask, tgt_mask)
                 took == FineImproves(val, best_score)
             IN  /\ raster' = Remember(raster, gps_rot, gps_poly_mask)
                 /\ best_score' = IF took THEN val ELSE best_score
                 /\ best_angle' = IF took THEN WrapAngle(ang) ELSE best_angle
                 /\ evals' = evals \cup
                      {Eval("fine", ang, WrapAngle(ang), val, best_score, took)}
    /\ ang' = ang + fine_step
    /\ UNCHANGED <<gps_latlng, svg_path, coarse_step, fine_step, pc, gps_norm,
                   svg_pts, target_norm, tgt_mask, start, end, coarse_best,
                   diag, result, error, parser, scorer,
                   grader, callVars>>

\* lines 440-463: the fine range is exhausted; diagnostics at best_angle
Diagnostics ==
    /\ pc = "fine"
    /\ ang >= end + 1
    /\ LET gps_rot == Rotated(gps_norm, best_angle)
       IN  \E gps_mask_line \in gps_path_mask :
           \E gps_mask_poly \in polygon_mask(gps_rot, raster, RowMasks) :
             LET signed_score == region_signed_score(gps_mask_poly, tgt_mask)
                 iou_score    == iou(gps_mask_poly, tgt_mask)
                 ct           == cov_target(gps_mask_poly, tgt_mask)
                 cg           == cov_gps(gps_mask_poly, gps_mask_line, tgt_mask)
             IN  /\ raster' = Remember(raster, gps_rot, gps_mask_poly)
                 /\ diag' = [computed |-> TRUE,
                             gps_mask_line |-> gps_mask_line,
                             gps_mask_poly |-> gps_mask_poly,
                             cov_target |-> ct, cov_gps |-> cg,
                             signed_score |-> signed_score,
                             iou_score |-> iou_score]
                 /\ result' =
                      [region_signed_pct      |-> region_signed_pct(signed_score),
                       overlap_iou_pct        |-> overlap_iou_pct(iou_score),
                       coverage_of_target_pct |-> Round1(ct),
                       coverage_of_gps_pct    |-> Round1(cg),
                       best_rotation_deg      |-> best_angle]
    /\ pc' = "done"
    /\ UNCHANGED <<gps_latlng, svg_path, coarse_step, fine_step, gps_norm,
                   svg_pts, target_norm, tgt_mask, best_score, best_angle, ang,
                   start, end, coarse_best, evals, error, parser, scorer,
                   grader, callVars>>

\* best_overlap_iou called directly: its caller receives the dictionary or
\* the exception that left it
CallerOfBestOverlapIou ==
    /\ pc \in {"done", "raised"}
    /\ grader.pc = "idle"
    /\ grader' = [pc      |-> IF pc = "done" THEN "returned" ELSE "raised",
                  entry   |-> "best_overlap_iou",
                  ret     |-> result,
                  exc     |-> error,
                  printed |-> FALSE]
    /\ UNCHANGED <<engineVars, parser, scorer, callVars>>

\* lines 521-544: the try block around best_overlap_iou; `except Exception`
\* prints the error and returns 0.0.  The step arguments of the wrapped call
\* are those of the search above.
grade_shape_similarity_iou ==
    /\ pc \in {"done", "raised"}
    /\ grader.pc = "idle"
    /\ grader' =
         IF pc = "done"
         THEN [pc |-> "returned", entry |-> "grade_shape_similarity_iou",
               ret |-> [similarity |-> result.overlap_iou_pct],
               exc |-> NoError, printed |-> FALSE]
         ELSE [pc |-> "returned", entry |-> "grade_shape_similarity_iou",
               ret |-> [similarity |-> 0],
               exc |-> NoError, printed |-> TRUE]
    /\ UNCHANGED <<engineVars, parser, scorer, callVars>>

\* lines 565-625: the same try block; `except Exception` prints the error and
\* returns a dictionary of zeros with the message under 'error'
grade_shape_similarity_with_transform_iou ==
    /\ pc \in {"done", "raised"}
    /\ grader.pc = "idle"
    /\ grader' =
         IF pc = "done"
         THEN [pc |-> "returned",
               entry |-> "grade_shape_similarity_with_transform_iou",
               ret |-> [similarity |-> result.overlap_iou_pct,
                        coverage_of_target_pct |-> result.coverage_of_target_pct,
                        coverage_of_gps_pct |-> result.coverage_of_gps_pct,
                        best_rotation_deg |-> result.best_rotation_deg,
                        algorithm |-> "iou",
                        error |-> ""],
               exc |-> NoError, printed |-> FALSE]
         ELSE [pc |-> "returned",
               entry |-> "grade_shape_similarity_with_transform_iou",
               ret |-> [similarity |-> 0,
                        coverage_of_target_pct |-> 0,
                        coverage_of_gps_pct |-> 0,
                        best_rotation_deg |-> 0,
                        algorithm |-> "iou",
                        error |-> error.msg],
               exc |-> NoError, printed |-> TRUE]
    /\ UNCHANGED <<engineVars, parser, scorer, callVars>>

Next ==
    \/ PrepareGps
    \/ PrepareTarget
    \/ CoarseStep
    \/ CoarseEnd
    \/ FineStep
    \/ Diagnostics

Spec == Init /\ [][Next]_vars

-----------------------------------------------------------------------------
(* The engine with its callers: the search once it has ended is handed to  *)
(* one of the entry points                                                 *)

\* the wrappers pass coarse_step = 5, fine_step = 1; the bounded search runs
\* with a step pair of the same kind (the fine step divides the coarse step)
InitGrade == Init /\ coarse_step = 120 /\ fine_step = 60

NextGrade ==
    \/ Next
    \/ CallerOfBestOverlapIou
    \/ grade_shape_similarity_iou
    \/ grade_shape_similarity_with_transform_iou

SpecGrade == InitGrade /\ [][NextGrade]_vars

-----------------------------------------------------------------------------
(* The overlap scorer on every pair of grids *)

InitScore ==
    /\ SearchIdle
    /\ CallsAllIdle
    /\ parser = ParserIdle
    /\ \E a \in Masks, b \in Masks :
         scorer = [ScorerIdle EXCEPT !.pc = "call", !.mask_a = a, !.mask_b = b]

\* iou(mask_a, mask_b) and the percentage reported from it (line 459)
CallIou ==
    /\ scorer.pc = "call"
    /\ LET iou_score == iou(scorer.mask_a, scorer.mask_b)
       IN  scorer' = [scorer EXCEPT !.pc = "scored", !.iou = iou_score,
                                    !.pct = overlap_iou_pct(iou_score)]
    /\ UNCHANGED <<searchVars, parser, callVars>>

\* region_signed_score(mask_a, mask_b): mask_a the candidate, mask_b the target
CallRegionSignedScore ==
    /\ scorer.pc = "scored"
    /\ scorer' = [scorer EXCEPT !.pc = "done",
                    !.signed = region_signed_score(scorer.mask_a, scorer.mask_b)]
    /\ UNCHANGED <<searchVars, parser, callVars>>

NextScore == CallIou \/ CallRegionSignedScore

SpecScore == InitScore /\ [][NextScore]_vars

-----------------------------------------------------------------------------
(* parse_svg_input and the token loop of parse_svg_path, step by step *)

PathFragments ==
    {<<Cmd("M"), Num(0), Num(0)>>,
     <<Cmd("M"), Num(1)>>,
     <<Cmd("L"), Num(1), Num(0)>>,
     <<Cmd("L")>>,
     <<Cmd("H"), Num(1)>>,
     <<Cmd("V"), Num(1)>>,
     <<Cmd("C"), Num(0), Num(1), Num(1), Num(1), Num(1), Num(0)>>,
     <<Cmd("C"), Num(0), Num(1)>>,
     <<Cmd("Q"), Num(1), Num(1), Num(0), Num(1)>>,
     <<Cmd("Z")>>,
     <<Cmd("z")>>,
     <<Cmd("Z"), Cmd("z")>>,
     <<Num(1)>>,
     <<Junk>>}

\* the concatenations of at most n fragments
RECURSIVE PathStrings(_)
PathStrings(n) ==
    IF n = 0 THEN {<<>>}
    ELSE LET shorter == PathStrings(n - 1)
         IN  shorter \cup {p \o f : p \in shorter, f \in PathFragments}

MarkupInputs ==
    {Markup(d, e, c, r, <<>>, <<>>) :
        d \in {<<>>, <<Junk>>, SquarePath},
        e \in {<<>>, <<12, 12, 2, 1>>, <<12, 12, 9, 6>>},
        c \in {<<>>, <<12, 12, 2>>},
        r \in {<<>>, <<2, 1>>}}
      \cup {Markup(<<>>, <<>>, <<>>, <<2, 1>>, <<3>>, <<6>>)}

ParseInputs == {RawPath(p) : p \in PathStrings(MaxFragments)} \cup MarkupInputs

InitParse ==
    /\ SearchIdle
    /\ CallsAllIdle
    /\ scorer = ScorerIdle
    /\ \E s \in ParseInputs :
         parser = [ParserIdle EXCEPT !.pc = "call", !.svg_text = s]

\* parse_svg_input up to the first token of a path, or through a primitive
ParseInput ==
    /\ parser.pc = "call"
    /\ LET s == parser.svg_text
       IN  IF UsesPath(s)
           THEN parser' = [ParserEnter(PathOf(s)) EXCEPT !.svg_text = s]
           ELSE LET r == ParsePrimitive(s)
                IN  parser' = [parser EXCEPT
                                 !.pc = IF r.ok THEN "returned" ELSE "raised",
                                 !.ret = r.val, !.exc = r.exc,
                                 !.gap = IF r.ok THEN ClosureGap(s) ELSE 0]
    /\ UNCHANGED <<searchVars, scorer, callVars>>

\* one iteration of the token loop
ParseToken ==
    /\ parser.pc = "loop"
    /\ parser.i < Len(parser.tokens)
    /\ parser' = LoopBody(parser)
    /\ UNCHANGED <<searchVars, scorer, callVars>>

\* the loop condition fails: build the array or raise
ParseReturn ==
    /\ parser.pc = "loop"
    /\ parser.i >= Len(parser.tokens)
    /\ parser' = LoopExit(parser)
    /\ UNCHANGED <<searchVars, scorer, callVars>>

NextParse == ParseInput \/ ParseToken \/ ParseReturn

SpecParse == InitParse /\ [][NextParse]_vars

\* path strings of at most two fragments
ShortPaths == {p \o q : p, q \in PathFragments \cup {<<>>}}

InitParseLive ==
    /\ SearchIdle
    /\ CallsAllIdle
    /\ scorer = ScorerIdle
    /\ \E p \in ShortPaths :
         parser = [ParserIdle EXCEPT !.pc = "call", !.svg_text = RawPath(p)]

\* the call runs on: a thread that can take its next step takes it
SpecParseLive == InitParseLive /\ [][NextParse]_vars /\ WF_vars(NextParse)

-----------------------------------------------------------------------------
(* Closed-loop Procrustes: procrustes_shape_grader.py                      *)
(*                                                                         *)
(* The curves given to it here have segments of integer length (axis-      *)
(* parallel polygons and their rotations by the 3-4-5 angle), so that arc   *)
(* lengths are exact.  A similarity is kept as its square: the score of    *)
(* one correspondence, trace(D @ diag(S)) = s1 + sign(det(U Vt)) * s2 for   *)
(* the singular values s1 >= s2 of C, is never negative and its square is  *)
(* |C|_F^2 + 2 det C = (c11 + c22)^2 + (c12 - c21)^2.                       *)

\* the integer r with r * r = n
ISqrt(n) == CHOOSE r \in 0 .. n : r * r = n

\* np.linalg.norm(q - p)
SegLen(p, q) ==
    ISqrt((q[1] - p[1]) * (q[1] - p[1]) + (q[2] - p[2]) * (q[2] - p[2]))

LCM(a, b) == IF a = 0 \/ b = 0 THEN Max(a, b) ELSE (a * b) \div GCD(a, b)

RECURSIVE LCMRange(_, _, _)
LCMRange(s, lo, hi) ==
    IF lo > hi THEN 0
    ELSE IF lo = hi THEN s[lo]
    ELSE LET mid == (lo + hi) \div 2
         IN  LCM(LCMRange(s, lo, mid), LCMRange(s, mid + 1, hi))

\* the lengths of the segments of the loop, the closing one last (lines 76-81)
SegmentLengths(points) ==
    LET n == Len(points)
    IN  [i \in 1 .. n |-> IF i < n THEN SegLen(points[i], points[i + 1])
                                   ELSE SegLen(points[n], points[1])]

\* cumulative_distances: n + 1 entries from 0 to the length of the loop
calculate_arc_length_distances(points) ==
    IF Len(points) < 2
    THEN <<0>>
    ELSE LET seg == SegmentLengths(points)
         IN  [j \in 1 .. Len(points) + 1 |-> SumRange(seg, 1, j - 1)]

\* np.searchsorted(a, num / den): how many entries of the sorted a are
\* smaller than num / den
searchsorted(a, num, den) ==
    Cardinality({j \in 1 .. Len(a) : a[j] * den < num})

\* segment_idx for resampled[i - 1], whose target distance is
\* (i - 1) * total / K: line 114
segment_idx(points, K, i) ==
    LET n   == Len(points)
        cum == calculate_arc_length_distances(points)
    IN  searchsorted(SubSeq(cum, 2, n + 1), (i - 1) * cum[n + 1], K)

\* a last segment that stops at the last point
end_point_open(points, idx) ==
    IF idx < Len(points) - 1 THEN points[idx + 2] ELSE points[Len(points)]

\* lines 117-123, 0-based idx
start_point(points, idx) ==
    IF idx < Len(points) - 1 THEN points[idx + 1] ELSE points[Len(points)]

end_point(points, idx) ==
    IF idx < Len(points) - 1 THEN points[idx + 2] ELSE points[1]

\* np.zeros((K, 2)) for fewer than 2 points
ResampleOfTooFew(points, K) == Arr([i \in 1 .. K |-> <<0, 0>>], 1)

\* lines 89-136
resample_closed_by_arclength(points, K) ==
    IF Len(points) < 2
    THEN ResampleOfTooFew(points, K)
    ELSE
      LET n     == Len(points)
          cum   == calculate_arc_length_distances(points)
          total == cum[n + 1]
      IN  IF total = 0
          THEN Arr([i \in 1 .. K |-> points[1]], 1)
          ELSE
            LET seg == SegmentLengths(points)
                lcm == LCMRange(seg, 1, n)
                den == K * lcm
                \* resampled[i - 1], target_dist = (i - 1) * total / K
                at(i) ==
                  LET idx   == segment_idx(points, K, i)
                      first == start_point(points, idx)
                      last  == end_point(points, idx)
                      s     == cum[idx + 1]
                      len   == cum[idx + 2] - s
                      \* t = along / (K * len)
                      along == (i - 1) * total - s * K
                  IN  IF len > 0
                      THEN <<first[1] * den + along * (last[1] - first[1]) * (lcm \div len),
                             first[2] * den + along * (last[2] - first[2]) * (lcm \div len)>>
                      ELSE <<first[1] * den, first[2] * den>>
            IN  Reduce(Arr([i \in 1 .. K |-> at(i)], den))

\* np.linalg.norm(A, 'fro') squared, as a numerator over A.den squared
FrobeniusSq(A) ==
    SeqSum([i \in 1 .. Len(A.pts) |->
              A.pts[i][1] * A.pts[i][1] + A.pts[i][2] * A.pts[i][2]])

\* a test of the first norm only
ZeroNormOfFirst(A, B) == FrobeniusSq(A) = 0

\* `if nA == 0 or nB == 0`, line 163
ZeroNorm(A, B) == FrobeniusSq(A) = 0 \/ FrobeniusSq(B) = 0

\* B[::-1]
Reversed(pts) == [i \in 1 .. Len(pts) |-> pts[Len(pts) + 1 - i]]

\* np.roll(pts, shift=k, axis=0): row i of the result is row i - k of pts
Roll(pts, k) == [i \in 1 .. Len(pts) |-> pts[((i - 1 - k) % Len(pts)) + 1]]

\* the forward traversal alone
DirectionsForwardOnly == <<1>>

\* for direction in [1, -1]
Directions == <<1, -1>>

\* Bdir = B if direction == 1 else B[::-1]
Bdir(B, direction) == IF direction = 1 THEN B ELSE Reversed(B)

\* one cyclic start fewer
ShiftCountButLast(K) == K - 1

\* for k in range(K)
ShiftCount(K) == K

\* entry (r, c) of C = A.T @ Bk, as a numerator
CrossEntry(A, Bk, r, c) ==
    SeqSum([i \in 1 .. Len(A) |-> A[i][r] * Bk[i][c]])

\* the score without the rotation: the trace of C, squared, 0 if negative
alignment_score_unrotated(A, Bk) ==
    LET tr == CrossEntry(A, Bk, 1, 1) + CrossEntry(A, Bk, 2, 2)
    IN  IF tr > 0 THEN tr * tr ELSE 0

\* sim = np.trace(D @ np.diag(S)) for C = A.T @ Bk (lines 180-188), squared,
\* as a numerator over |A|_F^2 * |B|_F^2
alignment_score(A, Bk) ==
    LET tr == CrossEntry(A, Bk, 1, 1) + CrossEntry(A, Bk, 2, 2)
        sk == CrossEntry(A, Bk, 1, 2) - CrossEntry(A, Bk, 2, 1)
    IN  tr * tr + sk * sk

\* one correspondence the loop tried
Sim(direction, k, sim) == [direction |-> direction, k |-> k, sim |-> sim]

-----------------------------------------------------------------------------
(* shape_similarity, one correspondence per step *)

Rot90(pts) == [i \in 1 .. Len(pts) |-> <<-pts[i][2], pts[i][1]>>]

\* the rotation by the angle with cosine 3/5 and sine 4/5, for coordinates
\* that are multiples of 5
Rot345(pts) ==
    [i \in 1 .. Len(pts) |-> <<(3 * pts[i][1] - 4 * pts[i][2]) \div 5,
                                (4 * pts[i][1] + 3 * pts[i][2]) \div 5>>]

Times5(pts) == [i \in 1 .. Len(pts) |-> <<5 * pts[i][1], 5 * pts[i][2]>>]

\* the same loop started at vertex s + 1
StartAt(pts, s) == [i \in 1 .. Len(pts) |-> pts[((i - 1 + s) % Len(pts)) + 1]]

square1 == <<<<0, 0>>, <<1, 0>>, <<1, 1>>, <<0, 1>>>>

square_shifted == <<<<1, 0>>, <<1, 1>>, <<0, 1>>, <<0, 0>>>>

square_reversed == <<<<0, 0>>, <<0, 1>>, <<1, 1>>, <<1, 0>>>>

rect1 == <<<<0, 0>>, <<2, 0>>, <<2, 1>>, <<0, 1>>>>

rect2 == <<<<0, 0>>, <<0, 2>>, <<1, 2>>, <<1, 0>>>>

LShape == <<<<0, 0>>, <<2, 0>>, <<2, 1>>, <<1, 1>>, <<1, 2>>, <<0, 2>>>>

ClosedCurves == {square1, rect1, LShape, Times5(square1), Times5(rect1)}

\* the rotations of a curve that keep its coordinates integers
RotationsOf(pts) ==
    {Rot90(pts), Rot90(Rot90(pts)), Rot90(Rot90(Rot90(pts)))}
      \cup (IF \A i \in 1 .. Len(pts) : pts[i][1] % 5 = 0 /\ pts[i][2] % 5 = 0
            THEN {Rot345(pts), Rot90(Rot345(pts))}
            ELSE {})

RestartsOf(pts) == {StartAt(pts, s) : s \in 1 .. Len(pts) - 1}

\* curves of no extent, and too short to be curves
DegenerateCurves == {<<>>, <<<<3, 4>>>>, <<<<3, 4>>, <<3, 4>>>>, <<<<0, 0>>>>}

ProcrustesPairs ==
    UNION {{<<a, a>>, <<a, Reversed(a)>>}
             \cup {<<a, b>> : b \in RotationsOf(a)}
             \cup {<<a, b>> : b \in RestartsOf(a)} : a \in ClosedCurves}
      \cup {<<square1, square_shifted>>, <<square1, square_reversed>>,
            <<rect1, rect2>>, <<square1, rect1>>, <<square1, LShape>>,
            <<rect1, LShape>>}
      \cup {<<a, square1>> : a \in DegenerateCurves}
      \cup {<<square1, a>> : a \in DegenerateCurves}

\* K, the number of resampled points
SampleCounts == {1, 4, 6}

InitProcrustes ==
    /\ SearchIdle
    /\ parser = ParserIdle
    /\ scorer = ScorerIdle
    /\ normalizer = NormalizerIdle
    /\ calls = CallsIdle
    /\ ServicesIdle
    /\ \E pair \in ProcrustesPairs, K \in SampleCounts :
         procrustes = [ProcrustesIdle EXCEPT !.pc = "call", !.A_pts = pair[1],
                                             !.B_pts = pair[2], !.K = K]

\* lines 150-170: resample, centre, the Frobenius norms and the early return
ResampleAndNormalize ==
    /\ procrustes.pc = "call"
    /\ LET RA == resample_closed_by_arclength(procrustes.A_pts, procrustes.K)
           RB == resample_closed_by_arclength(procrustes.B_pts, procrustes.K)
           A  == SubtractMean(RA)
           B  == SubtractMean(RB)
       IN  IF ZeroNorm(A, B)
           THEN procrustes' = [procrustes EXCEPT
                  !.pc = "returned", !.A_resampled = RA, !.B_resampled = RB,
                  !.A = A, !.B = B, !.ret = Rat(0, 1)]
           ELSE procrustes' = [procrustes EXCEPT
                  !.pc = "loop", !.A_resampled = RA, !.B_resampled = RB,
                  !.A = A, !.B = B, !.direction = 1, !.k = 0, !.best = 0]
    /\ UNCHANGED <<searchVars, parser, scorer, normalizer, calls,
                   serviceVars>>

\* lines 172-191: one pass through the body of the inner loop
TryCorrespondence ==
    /\ procrustes.pc = "loop"
    /\ LET d    == Directions[procrustes.direction]
           Bk   == Roll(Bdir(procrustes.B.pts, d), procrustes.k)
           sim  == alignment_score(procrustes.A.pts, Bk)
           last == procrustes.k + 1 >= ShiftCount(procrustes.K)
           done == last /\ procrustes.direction = Len(Directions)
       IN  procrustes' = [procrustes EXCEPT
             !.best = IF sim > procrustes.best THEN sim ELSE procrustes.best,
             !.sims = procrustes.sims \cup {Sim(d, procrustes.k, sim)},
             !.k = IF last THEN 0 ELSE procrustes.k + 1,
             !.direction = IF last /\ ~done THEN procrustes.direction + 1
                           ELSE procrustes.direction,
             !.pc = IF done THEN "clip" ELSE "loop"]
    /\ UNCHANGED <<searchVars, parser, scorer, normalizer, calls,
                   serviceVars>>

\* line 194: return float(np.clip(best, 0, 1))
ReturnSimilarity ==
    /\ procrustes.pc = "clip"
    /\ LET den == FrobeniusSq(procrustes.A) * FrobeniusSq(procrustes.B)
       IN  procrustes' = [procrustes EXCEPT
             !.pc = "returned",
             !.ret = IF procrustes.best > den THEN Rat(1, 1)
                     ELSE IF procrustes.best < 0 THEN Rat(0, 1)
                     ELSE Rat(procrustes.best, den)]
    /\ UNCHANGED <<searchVars, parser, scorer, normalizer, calls,
                   serviceVars>>

NextProcrustes == ResampleAndNormalize \/ TryCorrespondence \/ ReturnSimilarity

SpecProcrustes == InitProcrustes /\ [][NextProcrustes]_vars

-----------------------------------------------------------------------------
(* Concurrent invocations of best_overlap_iou and shape_similarity *)

\* the threads that invoke a similarity computation
Invocations == {1, 2}

\* TARGET_SVG, lines 26-30: <rect x="3" y="6" width="18" height="12"/>
TARGET_SVG == Markup(<<>>, <<>>, <<>>, <<18, 12>>, <<3>>, <<6>>)

\* values the module-level names may hold ("USER INPUTS (EDIT THESE)")
ModuleLevelValues ==
    {[TARGET_SVG |-> TARGET_SVG,
      GPS_ROUTE  |-> [width |-> 2, rows |-> <<PointA, PointA, PointB>>]],
     [TARGET_SVG |-> RawPath(SquarePath),
      GPS_ROUTE  |-> [width |-> 2, rows |-> <<>>]]}

\* the arguments of one invocation of either function
CallArguments(fn, gps_latlng_, svg_path_, steps, A_pts, B_pts, K) ==
    [fn |-> fn, gps_latlng |-> gps_latlng_, svg_path |-> svg_path_,
     coarse_step |-> steps[1], fine_step |-> steps[2],
     A_pts |-> A_pts, B_pts |-> B_pts, K |-> K]

ConcurrentArguments ==
    {CallArguments("best_overlap_iou", g, t, <<120, 60>>, <<>>, <<>>, 0) :
        g \in {[width |-> 2, rows |-> <<PointA, PointA, PointB>>],
               [width |-> 2, rows |-> <<PointA, PointB>>],
               [width |-> 2, rows |-> <<PointA>>]},
        t \in {TARGET_SVG,
               RawPath(<<Cmd("M"), Num(0), Num(0), Cmd("L"), Num(1), Num(0)>>)}}
      \cup
    {CallArguments("shape_similarity", [width |-> 2, rows |-> <<>>],
                   RawPath(<<>>), <<0, 0>>, pair[1], pair[2], 4) :
        pair \in {<<square1, rect1>>, <<rect1, LShape>>, <<LShape, LShape>>,
                  <<square1, <<<<3, 4>>>>>>}}

\* the dictionary best_overlap_iou returns, before it is built
NoDict ==
    [region_signed_pct |-> 0, overlap_iou_pct |-> 0, coverage_of_target_pct |-> Rat(0, 1),
     coverage_of_gps_pct |-> Rat(0, 1), best_rotation_deg |-> 0]

\* the locals of one invocation
FrameIdle ==
    [pc |-> "idle", gps_norm |-> NoArr, tgt_mask |-> Zeros,
     best_score |-> InitialBestScore, best_angle |-> 0, ang |-> 0, end |-> 0,
     A |-> NoArr, B |-> NoArr, direction |-> 1, k |-> 0, best |-> 0,
     dict |-> NoDict, similarity |-> Rat(0, 1), exc |-> NoError]

\* mpath.Path(poly).contains_points(grid) and the distance field of
\* gps_path_mask are functions of their arguments alone: the same polygon
\* gives the same grid in every invocation.  The grid picked here depends on
\* the number of points and on the angle.
contains_points(poly, family) ==
    LET masks == polygon_mask(poly, <<>>, family)
        rows  == (poly.deg \div 60 + Len(poly.arr.pts)) % (GridSize + 1)
    IN  CHOOSE m \in masks : Cardinality(masks) = 1 \/ Area(m) = GridSize * rows

stroke_mask(poly) ==
    CHOOSE m \in gps_path_mask :
        Area(m) = GridSize * (Len(poly.arr.pts) % (GridSize + 1))

\* an invocation whose locals are those of the first invocation
FrameSlotShared(i) == 1

\* each invocation has its own locals
FrameSlot(i) == i

EnterFrame(a) ==
    [FrameIdle EXCEPT
       !.pc = IF a.fn = "best_overlap_iou" THEN "prepare_gps" ELSE "resample"]

FrameRaise(f, e) == [f EXCEPT !.pc = "raised", !.exc = e]

\* lines 401-402
FramePrepareGps(f, a) ==
    LET gps_xy == latlng_to_xy(a.gps_latlng)
        norm   == center_and_scale(gps_xy.val)
    IN  IF ~gps_xy.ok THEN FrameRaise(f, gps_xy.exc)
        ELSE IF ~norm.ok THEN FrameRaise(f, norm.exc)
        ELSE [f EXCEPT !.pc = "prepare_target", !.gps_norm = norm.val]

\* lines 405-413
FramePrepareTarget(f, a) ==
    LET parsed == parse_svg_input(a.svg_path)
        norm   == center_and_scale(parsed.val)
    IN  IF ~parsed.ok THEN FrameRaise(f, parsed.exc)
        ELSE IF ~norm.ok THEN FrameRaise(f, norm.exc)
        ELSE [f EXCEPT !.pc = "coarse",
                       !.tgt_mask = contains_points(Unrotated(norm.val), ColMasks),
                       !.best_score = InitialBestScore,
                       !.best_angle = 0,
                       !.ang = 0]

\* lines 414-428
FrameCoarse(f, a) ==
    IF f.ang < FullCircle
    THEN LET gps_poly_mask == contains_points(Rotated(f.gps_norm, f.ang), RowMasks)
             val  == region_signed_score(gps_poly_mask, f.tgt_mask)
             took == CoarseImproves(val, f.best_score)
         IN  [f EXCEPT !.best_score = IF took THEN val ELSE @,
                       !.best_angle = IF took THEN f.ang ELSE @,
                       !.ang = @ + a.coarse_step]
    ELSE [f EXCEPT !.pc = "fine",
                   !.ang = FineStart(f.best_angle, a.coarse_step),
                   !.end = FineEnd(f.best_angle, a.coarse_step)]

\* lines 429-463
FrameFine(f, a) ==
    IF f.ang < f.end + 1
    THEN LET gps_poly_mask ==
               contains_points(Rotated(f.gps_norm, WrapAngle(f.ang)), RowMasks)
             val  == region_signed_score(gps_poly_mask, f.tgt_mask)
             took == FineImproves(val, f.best_score)
         IN  [f EXCEPT !.best_score = IF took THEN val ELSE @,
                       !.best_angle = IF took THEN WrapAngle(f.ang) ELSE @,
                       !.ang = @ + a.fine_step]
    ELSE LET gps_rot       == Rotated(f.gps_norm, f.best_angle)
             gps_mask_line == stroke_mask(gps_rot)
             gps_mask_poly == contains_points(gps_rot, RowMasks)
             signed_score  == region_signed_score(gps_mask_poly, f.tgt_mask)
         IN  [f EXCEPT
                !.pc = "returned",
                !.dict =
                  [region_signed_pct      |-> region_signed_pct(signed_score),
                   overlap_iou_pct        |-> overlap_iou_pct(iou(gps_mask_poly, f.tgt_mask)),
                   coverage_of_target_pct |-> Round1(cov_target(gps_mask_poly, f.tgt_mask)),
                   coverage_of_gps_pct    |->
                       Round1(cov_gps(gps_mask_poly, gps_mask_line, f.tgt_mask)),
                   best_rotation_deg      |-> f.best_angle]]

\* procrustes_shape_grader.py, lines 151-170
FrameResample(f, a) ==
    LET A == SubtractMean(resample_closed_by_arclength(a.A_pts, a.K))
        B == SubtractMean(resample_closed_by_arclength(a.B_pts, a.K))
    IN  IF ZeroNorm(A, B)
        THEN [f EXCEPT !.pc = "returned", !.A = A, !.B = B,
                       !.similarity = Rat(0, 1)]
        ELSE [f EXCEPT !.pc = "loop", !.A = A, !.B = B, !.direction = 1,
                       !.k = 0, !.best = 0]

\* procrustes_shape_grader.py, lines 172-191
FrameLoop(f, a) ==
    LET sim  == alignment_score(f.A.pts,
                                Roll(Bdir(f.B.pts, Directions[f.direction]), f.k))
        last == f.k + 1 >= ShiftCount(a.K)
        done == last /\ f.direction = Len(Directions)
    IN  [f EXCEPT !.best = IF sim > f.best THEN sim ELSE @,
                  !.k = IF last THEN 0 ELSE @ + 1,
                  !.direction = IF last /\ ~done THEN @ + 1 ELSE @,
                  !.pc = IF done THEN "clip" ELSE "loop"]

\* procrustes_shape_grader.py, line 194
FrameClip(f, a) ==
    LET den == FrobeniusSq(f.A) * FrobeniusSq(f.B)
    IN  [f EXCEPT !.pc = "returned",
                  !.similarity = IF f.best > den THEN Rat(1, 1)
                                 ELSE IF f.best < 0 THEN Rat(0, 1)
                                 ELSE Rat(f.best, den)]

Finished(f) == f.pc \in {"returned", "raised"}

RasterSteps == {"prepare_gps", "prepare_target", "coarse", "fine"}

ProcrustesSteps == {"resample", "loop", "clip"}

\* the next statement of an invocation, on its locals f and its arguments a
StepFrame(f, a) ==
    CASE f.pc = "prepare_gps"    -> FramePrepareGps(f, a)
      [] f.pc = "prepare_target" -> FramePrepareTarget(f, a)
      [] f.pc = "coarse"         -> FrameCoarse(f, a)
      [] f.pc = "fine"           -> FrameFine(f, a)
      [] f.pc = "resample"       -> FrameResample(f, a)
      [] f.pc = "loop"           -> FrameLoop(f, a)
      [] f.pc = "clip"           -> FrameClip(f, a)
      [] OTHER                   -> f

RECURSIVE RunFrame(_, _)
RunFrame(f, a) == IF Finished(f) \/ f.pc = "idle" THEN f ELSE RunFrame(StepFrame(f, a), a)

\* the invocation run from its call to its return with nothing in between
RunAlone(a) == RunFrame(EnterFrame(a), a)

InitConcurrent ==
    /\ SearchIdle
    /\ parser = ParserIdle
    /\ scorer = ScorerIdle
    /\ normalizer = NormalizerIdle
    /\ procrustes = ProcrustesIdle
    /\ ServicesIdle
    /\ \E module \in ModuleLevelValues,
          arguments \in [Invocations -> ConcurrentArguments] :
         calls = [module    |-> module,
                  arguments |-> arguments,
                  given     |-> [module |-> module, arguments |-> arguments],
                  frames    |-> [i \in Invocations |-> FrameIdle]]

\* a thread calls the function with its arguments
Invoke(i) ==
    /\ calls.frames[FrameSlot(i)].pc = "idle"
    /\ calls' = [calls EXCEPT
                   !.frames[FrameSlot(i)] = EnterFrame(calls.arguments[i])]
    /\ UNCHANGED <<searchVars, parser, scorer, normalizer, procrustes,
                   serviceVars>>

\* one statement of an invocation of best_overlap_iou
RunBestOverlapIou(i) ==
    /\ calls.arguments[i].fn = "best_overlap_iou"
    /\ calls.frames[FrameSlot(i)].pc \in RasterSteps
    /\ calls' = [calls EXCEPT
                   !.frames[FrameSlot(i)] = StepFrame(@, calls.arguments[i])]
    /\ UNCHANGED <<searchVars, parser, scorer, normalizer, procrustes,
                   serviceVars>>

\* one statement of an invocation of shape_similarity
RunShapeSimilarity(i) ==
    /\ calls.arguments[i].fn = "shape_similarity"
    /\ calls.frames[FrameSlot(i)].pc \in ProcrustesSteps
    /\ calls' = [calls EXCEPT
                   !.frames[FrameSlot(i)] = StepFrame(@, calls.arguments[i])]
    /\ UNCHANGED <<searchVars, parser, scorer, normalizer, procrustes,
                   serviceVars>>

NextConcurrent ==
    \/ \E i \in Invocations : Invoke(i)
    \/ \E i \in Invocations : RunBestOverlapIou(i)
    \/ \E i \in Invocations : RunShapeSimilarity(i)

SpecConcurrent == InitConcurrent /\ [][NextConcurrent]_vars

-----------------------------------------------------------------------------
(* center_and_scale on every short point sequence, and on its own result *)

NoReturn == [ok |-> FALSE, val |-> NoArr, exc |-> NoError]

NormPoints == (0 .. NormWidth) \X (0 .. NormHeight)

NormInputs ==
    {Arr(p, 1) : p \in UNION {[1 .. n -> NormPoints] : n \in 1 .. MaxPoints}}

InitNorm ==
    /\ SearchIdle
    /\ parser = ParserIdle
    /\ scorer = ScorerIdle
    /\ procrustes = ProcrustesIdle
    /\ calls = CallsIdle
    /\ ServicesIdle
    /\ \E a \in NormInputs :
         normalizer = [pc |-> "call", points |-> a, once |-> NoReturn,
                       twice |-> NoReturn]

\* center_and_scale(points)
Normalize ==
    /\ normalizer.pc = "call"
    /\ LET r == center_and_scale(normalizer.points)
       IN  normalizer' = [normalizer EXCEPT
                            !.pc = IF r.ok THEN "once" ELSE "raised",
                            !.once = r]
    /\ UNCHANGED <<searchVars, parser, scorer, procrustes, calls,
                   serviceVars>>

\* center_and_scale applied to the array the first call returned
NormalizeAgain ==
    /\ normalizer.pc = "once"
    /\ normalizer' = [normalizer EXCEPT
                        !.pc = "twice",
                        !.twice = center_and_scale(normalizer.once.val)]
    /\ UNCHANGED <<searchVars, parser, scorer, procrustes, calls,
                   serviceVars>>

NextNorm == Normalize \/ NormalizeAgain

SpecNorm == InitNorm /\ [][NextNorm]_vars

-----------------------------------------------------------------------------
(* Rasterisation on the grid: polygon_mask and gps_path_mask *)

\* np.linspace(-1, 1, grid_size), as numerators over den
linspace(grid_size, den) ==
    [k \in 1 .. grid_size |->
        IF grid_size = 1 THEN -den
        ELSE -den + (2 * den * (k - 1)) \div (grid_size - 1)]

\* X, Y = np.meshgrid(lin, lin): X[r][c] = lin[c] and Y[r][c] = lin[r]
grid_lin(grid_size, den) ==
    LET lin == linspace(grid_size, den)
    IN  [X |-> [r \in 1 .. grid_size |-> [c \in 1 .. grid_size |-> lin[c]]],
         Y |-> [r \in 1 .. grid_size |-> [c \in 1 .. grid_size |-> lin[r]]]]

\* M.ravel(): the rows one after the other
ravel(M, grid_size) ==
    [k \in 1 .. grid_size * grid_size |->
        M[((k - 1) \div grid_size) + 1][((k - 1) % grid_size) + 1]]

\* a reshape that fills the grid column by column
reshape_by_columns(flat, grid_size) ==
    [r \in 1 .. grid_size |->
        [c \in 1 .. grid_size |-> flat[(c - 1) * grid_size + r]]]

\* inside.reshape(grid_size, grid_size): row by row
reshape(flat, grid_size) ==
    [r \in 1 .. grid_size |->
        [c \in 1 .. grid_size |-> flat[(r - 1) * grid_size + c]]]

\* np.zeros((grid_size, grid_size), dtype=bool)
zeros(grid_size) ==
    [r \in 1 .. grid_size |-> [c \in 1 .. grid_size |-> FALSE]]

\* the edge p0 -> p1 is crossed by the ray from q (crossing-number test of
\* Path.contains_points)
crosses(p0, p1, q) ==
    LET yflag0 == p0[2] >= q[2]
        yflag1 == p1[2] >= q[2]
    IN  /\ yflag0 # yflag1
        /\ ((p1[2] - q[2]) * (p0[1] - p1[1])
              >= (p1[1] - q[1]) * (p0[2] - p1[2])) = yflag1

point_in_path(path, q) ==
    Cardinality({i \in 1 .. Len(path) - 1 : crosses(path[i], path[i + 1], q)})
        % 2 = 1

\* lines 315-317: the polygon with its first point appended unless it is closed
EnsureClosed(pts) ==
    IF pts[1] = pts[Len(pts)] THEN pts ELSE Append(pts, pts[1])

\* polygon_mask(poly_norm, grid_size) cell by cell
polygon_mask_on_grid(poly_norm, grid_size) ==
    IF Len(poly_norm.pts) < 3 THEN zeros(grid_size)
    ELSE LET path   == EnsureClosed(poly_norm.pts)
             g      == grid_lin(grid_size, poly_norm.den)
             X      == ravel(g.X, grid_size)
             Y      == ravel(g.Y, grid_size)
             inside == [k \in 1 .. grid_size * grid_size |->
                          point_in_path(path, <<X[k], Y[k]>>)]
         IN  reshape(inside, grid_size)

\* lines 337-353: dist <= r for the segment p0 -> p1 and the grid point q,
\* with the squares compared
segment_covers(p0, p1, q, r) ==
    LET v0 == p1[1] - p0[1]
        v1 == p1[2] - p0[2]
        vv == v0 * v0 + v1 * v1
        dx == q[1] - p0[1]
        dy == q[2] - p0[2]
        s  == dx * v0 + dy * v1
    IN  /\ r >= 0
        /\ IF vv = 0 \/ s <= 0 THEN dx * dx + dy * dy <= r * r
           ELSE IF s >= vv
           THEN (q[1] - p1[1]) * (q[1] - p1[1])
                  + (q[2] - p1[2]) * (q[2] - p1[2]) <= r * r
           ELSE (dx * dx + dy * dy) * vv - s * s <= r * r * vv

\* gps_path_mask(gps_norm, grid_size, stroke_norm) cell by cell; stroke_norm
\* as a numerator over the array's den
gps_path_mask_on_grid(path, grid_size, stroke_norm) ==
    LET g == grid_lin(grid_size, path.den)
    IN  [r \in 1 .. grid_size |->
          [c \in 1 .. grid_size |->
            \E i \in 1 .. Len(path.pts) - 1 :
                segment_covers(path.pts[i], path.pts[i + 1],
                               <<g.X[r][c], g.Y[r][c]>>, stroke_norm)]]

\* point sequences in quarters of the normalised unit
RasterCurves ==
    {Arr(p, 4) : p \in
        {<<>>,
         <<<<0, 0>>>>,
         <<<<-4, -4>>, <<4, 4>>>>,
         <<<<0, 0>>, <<0, 0>>, <<0, 0>>>>,
         <<<<-4, -4>>, <<4, -4>>, <<4, 0>>>>,
         <<<<-4, -2>>, <<4, -2>>, <<4, 2>>, <<-4, 2>>>>,
         <<<<-4, -2>>, <<4, -2>>, <<4, 2>>, <<-4, 2>>, <<-4, -2>>>>,
         <<<<-2, -4>>, <<2, -4>>, <<2, 4>>, <<-2, 4>>>>}}

RasterGridSizes == {1, 2, 3, 5}

StrokeWidths == {0, 1, 2}

InitRaster ==
    /\ SearchIdle
    /\ parser = ParserIdle
    /\ scorer = ScorerIdle
    /\ normalizer = NormalizerIdle
    /\ procrustes = ProcrustesIdle
    /\ calls = CallsIdle
    /\ handler = HandlerIdle
    /\ \E poly \in RasterCurves, gps \in RasterCurves,
          G \in RasterGridSizes, w \in StrokeWidths :
         rasterizer = [RasterizerIdle EXCEPT
                         !.pc = "call", !.poly_norm = poly, !.gps_norm = gps,
                         !.grid_size = G, !.stroke_norm = w]

\* polygon_mask(poly_norm, grid_size)
CallPolygonMask ==
    /\ rasterizer.pc = "call"
    /\ rasterizer' = [rasterizer EXCEPT
                        !.pc = "filled",
                        !.filled = polygon_mask_on_grid(rasterizer.poly_norm,
                                                        rasterizer.grid_size)]
    /\ UNCHANGED <<searchVars, parser, scorer, normalizer, procrustes, calls,
                   handler>>

\* gps_path_mask(gps_norm, grid_size, stroke_norm) for the same grid_size
CallGpsPathMask ==
    /\ rasterizer.pc = "filled"
    /\ rasterizer' = [rasterizer EXCEPT
                        !.pc = "stroked",
                        !.stroked = gps_path_mask_on_grid(rasterizer.gps_norm,
                                                          rasterizer.grid_size,
                                                          rasterizer.stroke_norm)]
    /\ UNCHANGED <<searchVars, parser, scorer, normalizer, procrustes, calls,
                   handler>>

NextRaster == CallPolygonMask \/ CallGpsPathMask

SpecRaster == InitRaster /\ [][NextRaster]_vars

-----------------------------------------------------------------------------
(* The grade_activity request handler and its temporary GPS file *)

\* keys of shape_file_map
ShapeNames == {"rectangle", "circle", "triangle", "heart", "star"}

RequestedShapes == ShapeNames \cup {"hexagon"}

\* shapes whose svg file exists under base_path
InstalledShapeFiles == {{}, {"rectangle", "circle"}, ShapeNames}

\* names NamedTemporaryFile may give
TempNames == {"tmp_a.json", "tmp_b.json"}

InitHandler ==
    /\ SearchIdle
    /\ parser = ParserIdle
    /\ scorer = ScorerIdle
    /\ normalizer = NormalizerIdle
    /\ procrustes = ProcrustesIdle
    /\ calls = CallsIdle
    /\ rasterizer = RasterizerIdle
    /\ \E shape \in RequestedShapes, installed \in InstalledShapeFiles,
          coords \in BOOLEAN, data \in BOOLEAN, gr \in BOOLEAN, st \in BOOLEAN :
         handler = [HandlerIdle EXCEPT
                      !.pc = "streams", !.shape = shape,
                      !.include_coordinates = coords, !.latlng = data,
                      !.shape_files = installed, !.grader_raises = gr,
                      !.store_raises = st]

\* lines 1160-1161: no GPS data, 400 before any file is made
CheckStreams ==
    /\ handler.pc = "streams"
    /\ handler' = IF handler.latlng
                  THEN [handler EXCEPT !.pc = "create"]
                  ELSE [handler EXCEPT !.pc = "returned", !.status = 400]
    /\ UNCHANGED <<searchVars, parser, scorer, normalizer, procrustes, calls,
                   rasterizer>>

\* lines 1173-1175: NamedTemporaryFile(delete=False), json.dump, the name kept
CreateTempFile ==
    /\ handler.pc = "create"
    /\ \E name \in TempNames :
         handler' = [handler EXCEPT
                       !.pc = "lookup",
                       !.temp_gps_file = name,
                       !.files = handler.files \cup {name}]
    /\ UNCHANGED <<searchVars, parser, scorer, normalizer, procrustes, calls,
                   rasterizer>>

\* lines 1186-1189: svg_file = shape_file_map.get(shape); 400 when it is
\* missing or not on disk
LookupShape ==
    /\ handler.pc = "lookup"
    /\ handler' = IF handler.shape \in ShapeNames
                       /\ handler.shape \in handler.shape_files
                  THEN [handler EXCEPT !.pc = "grade"]
                  ELSE [handler EXCEPT !.pc = "returned", !.status = 400]
    /\ UNCHANGED <<searchVars, parser, scorer, normalizer, procrustes, calls,
                   rasterizer>>

\* os.unlink(temp_gps_file)
unlink(files, name) == files \ {name}

\* lines 1192-1255, either branch of include_coordinates: grade, store the
\* score, unlink and return; on an exception unlink if the file exists and
\* raise again
GradeAndStore ==
    /\ handler.pc = "grade"
    /\ handler' =
         IF handler.grader_raises
         THEN [handler EXCEPT
                 !.pc = "raised",
                 !.files = unlink(handler.files, handler.temp_gps_file)]
         ELSE IF handler.store_raises
         THEN [handler EXCEPT
                 !.pc = "raised",
                 !.files = unlink(handler.files, handler.temp_gps_file)]
         ELSE [handler EXCEPT
                 !.pc = "returned",
                 !.stored = TRUE,
                 !.files = unlink(handler.files, handler.temp_gps_file),
                 !.status = 200]
    /\ UNCHANGED <<searchVars, parser, scorer, normalizer, procrustes, calls,
                   rasterizer>>

\* lines 1257-1263: except Exception, 500
HandleException ==
    /\ handler.pc = "raised"
    /\ handler' = [handler EXCEPT !.pc = "returned", !.status = 500]
    /\ UNCHANGED <<searchVars, parser, scorer, normalizer, procrustes, calls,
                   rasterizer>>

NextHandler ==
    \/ CheckStreams
    \/ CreateTempFile
    \/ LookupShape
    \/ GradeAndStore
    \/ HandleException

SpecHandler == InitHandler /\ [][NextHandler]_vars

-----------------------------------------------------------------------------
(* Properties of concurrent invocations *)

-----------------------------------------------------------------------------
(* Properties of the Procrustes grader *)

\* the candidate correspondences of B the loops of shape_similarity go through
CorrespondencesOf(B, K) ==
    {Roll(Bdir(B, Directions[i]), k) :
        i \in 1 .. Len(Directions), k \in 0 .. ShiftCount(K) - 1}

\* the curve has extent once resampled and centred
HasExtent(A) == FrobeniusSq(A) > 0

\* C13: shape_similarity returns the maximum, over exactly the 2K
\* correspondences (2 directions times K cyclic shifts), of the
\* per-correspondence alignment score, clamped to [0, 1]; so the percentage
\* lies in [0, 100] and the distance sqrt(2 - 2 * similarity) in [0, sqrt 2].
\* (The similarity is held as its square.)
C13_MaximumOver2KCorrespondences ==
    procrustes.pc = "returned" =>
      LET K   == procrustes.K
          den == FrobeniusSq(procrustes.A) * FrobeniusSq(procrustes.B)
      IN  /\ procrustes.ret.d > 0
          /\ 0 <= procrustes.ret.n /\ procrustes.ret.n <= procrustes.ret.d
          /\ (HasExtent(procrustes.A) /\ HasExtent(procrustes.B)) =>
                /\ Cardinality(procrustes.sims) = 2 * K
                /\ {<<e.direction, e.k>> : e \in procrustes.sims}
                     = {1, -1} \X (0 .. K - 1)
                /\ \A e \in procrustes.sims :
                     e.sim = alignment_score(procrustes.A.pts,
                               Roll(Bdir(procrustes.B.pts, e.direction), e.k))
                /\ procrustes.ret.d = den
                /\ \E e \in procrustes.sims : e.sim = procrustes.ret.n
                /\ \A e \in procrustes.sims : e.sim <= procrustes.ret.n
          /\ ~(HasExtent(procrustes.A) /\ HasExtent(procrustes.B)) =>
                procrustes.ret.n = 0 /\ procrustes.sims = {}

\* two different curves compared: the maximum is attained by a reversed,
\* shifted correspondence and is below 1
C13_Witness ==
    /\ procrustes.pc = "returned"
    /\ Cardinality(procrustes.sims) = 2 * procrustes.K
    /\ 0 < procrustes.ret.n /\ procrustes.ret.n < procrustes.ret.d
    /\ \E e \in procrustes.sims : e.sim < procrustes.ret.n
    /\ \A e \in procrustes.sims :
         e.sim = procrustes.ret.n => (e.direction = -1 /\ e.k > 0)

\* C14: the similarity does not depend on where the closed curve B starts
\* nor on its direction: the set of correspondences searched is the same set
\* for every cyclic shift of the resampled B and for its reversal, and a
\* curve compared with itself restarted at another vertex or reversed scores
\* 1 when its vertices fall on the resampling grid (as the authors' squares
\* do for K a multiple of 4).
C14_StartAndDirectionInvariant ==
    (procrustes.pc = "returned" /\ HasExtent(procrustes.A) /\ HasExtent(procrustes.B)) =>
      LET K == procrustes.K
          A == procrustes.A.pts
          B == procrustes.B.pts
          searched == CorrespondencesOf(B, K)
      IN  /\ {e.sim : e \in procrustes.sims}
               = {alignment_score(A, c) : c \in searched}
          /\ \A s \in 0 .. K - 1 : CorrespondencesOf(Roll(B, s), K) = searched
          /\ CorrespondencesOf(Reversed(B), K) = searched
          /\ (\E s \in 0 .. K - 1 : B = Roll(A, s) \/ B = Roll(Reversed(A), s)) =>
                procrustes.ret.n = procrustes.ret.d
          /\ (K % 4 = 0 /\ procrustes.A_pts = square1
                /\ procrustes.B_pts \in {square_shifted, square_reversed}) =>
                procrustes.ret.n = procrustes.ret.d

\* a curve against its own reversal restarted elsewhere: similarity 1, found
\* in the reversed direction only
C14_Witness ==
    /\ procrustes.pc = "returned"
    /\ procrustes.A_pts = LShape
    /\ procrustes.B_pts = Reversed(LShape)
    /\ procrustes.ret.n = procrustes.ret.d
    /\ \A e \in procrustes.sims :
         e.sim = procrustes.ret.n => e.direction = -1

\* C15: a closed curve with extent compared with a rotated copy of itself
\* has similarity 1, whatever the angle: here the quarter turns and the
\* angle with cosine 3/5; the authors' 2x1 against 1x2 rectangle scores 1
\* when the resampling grid contains the corners (K a multiple of 6), and a
\* square against itself scores 1.
C15_RotationInvariant ==
    (procrustes.pc = "returned" /\ procrustes.K > 1) =>
      /\ (procrustes.A_pts \in ClosedCurves
            /\ procrustes.B_pts \in RotationsOf(procrustes.A_pts) \cup {procrustes.A_pts}) =>
            procrustes.ret.n = procrustes.ret.d
      /\ (procrustes.K % 6 = 0 /\ procrustes.A_pts = rect1 /\ procrustes.B_pts = rect2) =>
            procrustes.ret.n = procrustes.ret.d

\* a rectangle against its copy rotated by the 3-4-5 angle
C15_Witness ==
    /\ procrustes.pc = "returned"
    /\ procrustes.A_pts = Times5(rect1)
    /\ procrustes.B_pts = Rot345(Times5(rect1))
    /\ procrustes.ret.n = procrustes.ret.d
    /\ procrustes.ret.n > 0

\* resampled is K points of the closed loop through points, point i at arc
\* length (i - 1) * total / K from the first point
EvenlySpaced(points, K, resampled) ==
    LET n     == Len(points)
        seg   == SegmentLengths(points)
        total == SeqSum(seg)
        after(j) == IF j < n THEN points[j + 1] ELSE points[1]
    IN  \A i \in 1 .. K :
          \E j \in 1 .. n :
            LET before == SumRange(seg, 1, j - 1)
                along  == (i - 1) * total - before * K
            IN  /\ seg[j] > 0
                /\ 0 <= along /\ along <= seg[j] * K
                /\ \A c \in 1 .. 2 :
                     resampled.pts[i][c] * K * seg[j]
                       = resampled.den * (points[j][c] * K * seg[j]
                                          + along * (after(j)[c] - points[j][c]))

\* what C16 says of one resampled curve
ResampledAsStated(points, K, resampled) ==
    /\ Len(resampled.pts) = K
    /\ resampled.den > 0
    /\ points # <<>> =>
         /\ resampled.pts[1][1] = points[1][1] * resampled.den
         /\ resampled.pts[1][2] = points[1][2] * resampled.den
         /\ IF SeqSum(SegmentLengths(points)) = 0
            THEN \A i \in 1 .. K :
                   /\ resampled.pts[i][1] = points[1][1] * resampled.den
                   /\ resampled.pts[i][2] = points[1][2] * resampled.den
            ELSE EvenlySpaced(points, K, resampled)

\* C16: resample_closed_by_arclength(points, K) returns exactly K points,
\* evenly spaced by arc length around the loop closed from the last point to
\* the first, the first of them the first input point; an input of zero
\* length, a single point included, resamples to K copies of that point.
C16_ResampleEvenlyOrCopies ==
    procrustes.pc # "call" =>
      /\ ResampledAsStated(procrustes.A_pts, procrustes.K, procrustes.A_resampled)
      /\ ResampledAsStated(procrustes.B_pts, procrustes.K, procrustes.B_resampled)

\* what C30 says of the K target distances on one curve
SegmentsInBounds(points, K, resampled) ==
    LET n     == Len(points)
        cum   == calculate_arc_length_distances(points)
        total == cum[n + 1]
    IN  (n >= 2 /\ total > 0) =>
          \A i \in 1 .. K :
            LET idx    == segment_idx(points, K, i)
                target == (i - 1) * total
                from   == cum[idx + 1] * K
                to     == cum[idx + 2] * K
            IN  /\ 0 <= target /\ target < total * K
                /\ 0 <= idx /\ idx <= n - 1
                /\ idx + 2 \in DOMAIN cum
                /\ from <= target /\ target <= to
                /\ idx = n - 1 =>
                     /\ start_point(points, idx) = points[n]
                     /\ end_point(points, idx) = points[1]
                /\ idx < n - 1 =>
                     /\ start_point(points, idx) = points[idx + 1]
                     /\ end_point(points, idx) = points[idx + 2]
                /\ to > from =>
                     \A c \in 1 .. 2 :
                       resampled.pts[i][c] * (to - from)
                         = resampled.den
                             * (start_point(points, idx)[c] * (to - from)
                                + (target - from)
                                    * (points[IF idx = n - 1 THEN 1 ELSE idx + 2][c]
                                       - start_point(points, idx)[c]))

\* C30: in resample_closed_by_arclength every one of the K target distances
\* lies in [0, total_length) and its segment index idx satisfies
\* 0 <= idx <= len(points) - 1, so cumulative_distances[idx + 1] and the
\* points read are in bounds; idx = len(points) - 1 is the closing segment
\* from the last point to the first; the target lies between the segment's
\* cumulative distances, so t is in [0, 1].
C30_SegmentIndexInBounds ==
    procrustes.pc \notin {"idle", "call"} =>
      /\ SegmentsInBounds(procrustes.A_pts, procrustes.K, procrustes.A_resampled)
      /\ SegmentsInBounds(procrustes.B_pts, procrustes.K, procrustes.B_resampled)

\* the L shape resampled to 6 points: the last target lies on the closing
\* segment from the last vertex back to the first
C30_Witness ==
    /\ procrustes.pc = "returned"
    /\ procrustes.A_pts = LShape
    /\ procrustes.K = 6
    /\ segment_idx(LShape, 6, 6) = Len(LShape) - 1
    /\ procrustes.A_resampled.pts[6] # procrustes.A_resampled.pts[1]

\* all the points of the curve are the same point
AllEqual(points) == \A i \in 1 .. Len(points) : points[i] = points[1]

\* C26: shape_similarity returns 0.0, without raising and without dividing
\* by a zero norm, whenever either curve has zero Frobenius norm after
\* resampling and centring; that is so for a single-point input, for an
\* input whose points are all equal, and for every input when K = 1.
C26_ZeroNormReturnsZero ==
    procrustes.pc \notin {"idle", "call"} =>
      LET degenerate(points) ==
            Len(points) = 1 \/ AllEqual(points) \/ procrustes.K = 1
      IN  /\ (degenerate(procrustes.A_pts) \/ degenerate(procrustes.B_pts)) =>
               ZeroNorm(procrustes.A, procrustes.B)
          /\ ZeroNorm(procrustes.A, procrustes.B) =>
               /\ procrustes.pc = "returned"
               /\ procrustes.ret = Rat(0, 1)
               /\ procrustes.sims = {}
          /\ (procrustes.pc = "returned" /\ procrustes.sims # {}) =>
               procrustes.ret.d = FrobeniusSq(procrustes.A) * FrobeniusSq(procrustes.B)
          /\ procrustes.ret.d > 0

\* a square resampled to one point against itself: 0 is returned though
\* the curves are the same
C26_Witness ==
    /\ procrustes.pc = "returned"
    /\ procrustes.K = 1
    /\ procrustes.A_pts = square1
    /\ procrustes.B_pts = square1
    /\ procrustes.A_resampled.pts = <<<<0, 0>>>>
    /\ procrustes.ret = Rat(0, 1)

-----------------------------------------------------------------------------
(* Properties of the normaliser *)

\* n times the deviation of coordinate k of point i from the centroid
Deviation(a, i, k) == Len(a.pts) * a.pts[i][k] - SeqSum(Column(a.pts, k))

\* n times the maximum absolute deviation over all points and both axes
MaxDeviation(a) ==
    SeqMax([j \in 1 .. 2 * Len(a.pts) |->
              Abs(Deviation(a, (j + 1) \div 2, 2 - (j % 2)))])

\* C17: for a non-degenerate sequence of 2 or more points center_and_scale
\* returns as many points, with centroid at the origin, each coordinate the
\* centred input coordinate divided by the one maximum absolute deviation
\* and multiplied by 0.85, so the maximum absolute coordinate is 0.85 and
\* every coordinate lies in [-0.85, 0.85].
C17_UniformScaleTo085 ==
    (normalizer.pc \in {"once", "twice"} /\ MaxDeviation(normalizer.points) > 0) =>
      LET inp == normalizer.points
          out == normalizer.once.val
          n   == Len(inp.pts)
          m   == MaxDeviation(inp)
      IN  /\ n >= 2
          /\ out.den > 0
          /\ Len(out.pts) = n
          /\ SeqSum(Column(out.pts, 1)) = 0
          /\ SeqSum(Column(out.pts, 2)) = 0
          /\ \A i \in 1 .. n : \A k \in 1 .. 2 :
                /\ 100 * m * out.pts[i][k] = 85 * Deviation(inp, i, k) * out.den
                /\ 100 * Abs(out.pts[i][k]) <= 85 * out.den
          /\ 100 * MaxAbs(out.pts) = 85 * out.den

\* a normalised triangle whose extent along x differs from its extent along y
C17_Witness ==
    /\ normalizer.pc = "once"
    /\ Len(normalizer.points.pts) = 3
    /\ LET out == normalizer.once.val
           ex  == SeqMax([i \in 1 .. Len(out.pts) |-> Abs(out.pts[i][1])])
           ey  == SeqMax([i \in 1 .. Len(out.pts) |-> Abs(out.pts[i][2])])
       IN  ex > ey /\ ey > 0

\* C18: for every sequence of 2 or more points, degenerate or not,
\* center_and_scale(center_and_scale(P)) equals center_and_scale(P).
C18_Idempotent ==
    /\ normalizer.pc = "once" => Len(normalizer.points.pts) >= 2
    /\ normalizer.pc = "raised" => Len(normalizer.points.pts) < 2
    /\ normalizer.pc = "twice" =>
         /\ normalizer.twice.ok
         /\ normalizer.twice.val = normalizer.once.val

\* a non-degenerate sequence normalised twice
C18_Witness ==
    /\ normalizer.pc = "twice"
    /\ MaxDeviation(normalizer.points) > 0
    /\ normalizer.twice.val = normalizer.once.val
    /\ normalizer.once.val # normalizer.points

-----------------------------------------------------------------------------
(* Properties of the rotation search *)

\* the filled GPS mask at the angle a, as the search rasterised it
FilledMaskAt(a) ==
    IF Len(gps_norm.pts) < 3 THEN Zeros ELSE raster[Rotated(gps_norm, a)]

CoarseEvals == {e \in evals : e.pass = "coarse"}

FineEvals == {e \in evals : e.pass = "fine"}

Angles == 0 .. FullCircle - 1

\* C1: the best angle is an integer in [0, 360) after the coarse pass and
\* after every fine-pass update, and so is the returned best_rotation_deg,
\* also when best - coarse_step < 0 or best + coarse_step >= 360.
C1_RotationInRange ==
    /\ best_angle \in Angles
    /\ pc \in {"fine", "done"} => coarse_best.angle \in Angles
    /\ \A e \in evals : e.angle \in Angles
    /\ pc = "done" => result.best_rotation_deg \in Angles

\* a finished search whose window starts below 0 and ends at 360 or more,
\* and whose answer was taken from a loop value of 360 or more
C1_Witness ==
    /\ pc = "done"
    /\ start < 0
    /\ end >= FullCircle
    /\ \E e \in FineEvals : e.took /\ e.ang < 0
    /\ \E e \in FineEvals :
         e.took /\ e.ang >= FullCircle /\ result.best_rotation_deg = e.angle

\* C2: the fine pass overwrites the best only on a strictly greater score;
\* with no fine score strictly above the coarse best the returned angle is
\* the coarse best angle; the best score is at least every evaluated score.
C2_FineStrictImprovement ==
    /\ \A e \in FineEvals : e.took <=> RatGT(e.val, e.before)
    /\ \A e \in evals : RatGE(best_score, e.val)
    /\ (pc \in {"fine", "done"} /\ best_angle # coarse_best.angle) =>
         \E e \in FineEvals :
            e.took /\ e.angle = best_angle /\ RatGT(e.val, coarse_best.score)
    /\ (pc = "done" /\ \A e \in FineEvals : ~RatGT(e.val, coarse_best.score)) =>
         /\ result.best_rotation_deg = coarse_best.angle
         /\ RatEq(best_score, coarse_best.score)

\* a finished search in which a fine angle other than the coarse best tied
\* with it and none beat it
C2_Witness ==
    /\ pc = "done"
    /\ \E e \in FineEvals :
         e.angle # coarse_best.angle /\ RatEq(e.val, coarse_best.score)
    /\ \A e \in FineEvals : ~RatGT(e.val, coarse_best.score)
    /\ result.best_rotation_deg = coarse_best.angle

\* C3: the coarse pass evaluates 0, s, 2s, ... below 360 and ends with the
\* lowest of the angles whose score is the maximum coarse score.
C3_CoarseFirstMaximum ==
    pc \in {"fine", "done"} =>
      /\ {e.angle : e \in CoarseEvals} = {a \in Angles : a % coarse_step = 0}
      /\ \E e \in CoarseEvals :
           /\ e.angle = coarse_best.angle
           /\ RatEq(e.val, coarse_best.score)
           /\ \A f \in CoarseEvals :
                /\ RatGE(e.val, f.val)
                /\ RatEq(f.val, e.val) => e.angle <= f.angle

\* the coarse best is not the first angle and a later coarse angle ties with it
C3_Witness ==
    /\ pc \in {"fine", "done"}
    /\ coarse_best.angle > 0
    /\ \E f \in CoarseEvals :
         f.angle > coarse_best.angle /\ RatEq(f.val, coarse_best.score)

\* C4: region_signed_pct is the signed/region score (a percentage) of the
\* filled mask at the returned angle against the target mask, clamped to
\* [-100, 100] and rounded to one decimal.
C4_SignedPctIsClampedScore ==
    pc = "done" =>
      result.region_signed_pct =
        Round1(Clip(region_signed_score(FilledMaskAt(result.best_rotation_deg),
                                        tgt_mask), -100, 100))

\* C7: the coverage diagnostics are taken at the returned angle, which the
\* signed score alone selected: coverage of target = 100 * I / |target|,
\* coverage of GPS = 100 * I / |stroked mask|, I the overlap of the filled
\* mask with the target; each is 0 on a zero denominator; the returned
\* fields are these values rounded to one decimal.
C7_CoverageAtBestAngle ==
    pc = "done" =>
      LET filled == FilledMaskAt(result.best_rotation_deg)
          I == Cardinality(filled \cap tgt_mask)
          T == Cardinality(tgt_mask)
          S == Cardinality(diag.gps_mask_line)
      IN  /\ diag.gps_mask_poly = filled
          /\ RatEq(diag.cov_target, IF T = 0 THEN Rat(0, 1) ELSE Rat(100 * I, T))
          /\ RatEq(diag.cov_gps, IF S = 0 THEN Rat(0, 1) ELSE Rat(100 * I, S))
          /\ result.coverage_of_target_pct = Round1(diag.cov_target)
          /\ result.coverage_of_gps_pct = Round1(diag.cov_gps)
          /\ result.best_rotation_deg = best_angle
          /\ \E e \in evals :
               e.took /\ e.angle = best_angle /\ RatEq(e.val, best_score)

\* a finished search whose answer came from the fine pass, with an overlap
\* and with a stroked mask that differs in area from the filled one
C7_Witness ==
    /\ pc = "done"
    /\ result.best_rotation_deg # coarse_best.angle
    /\ Cardinality(diag.gps_mask_poly \cap tgt_mask) > 0
    /\ Cardinality(diag.gps_mask_line) > 0
    /\ Cardinality(diag.gps_mask_line) # Cardinality(diag.gps_mask_poly)
    /\ result.coverage_of_gps_pct # result.coverage_of_target_pct

\* C11: every failure raised inside a comparison reaches the caller of the
\* entry point unmodified: nothing is caught, nothing is printed, and no
\* fallback result (such as a score of 0) is returned in its place.
C11_FailuresPropagateUnmodified ==
    (pc = "raised" /\ grader.pc # "idle") =>
      /\ grader.pc = "raised"
      /\ grader.exc = error
      /\ ~grader.printed

\* the GPS argument is not a list of at least 2 pairs
GpsTooShort == ~(gps_latlng.width = 2 /\ Len(gps_latlng.rows) >= 2)

\* C9: latlng_to_xy raises the insufficient-data error exactly for a track
\* that is not a list of 2 or more pairs, and center_and_scale exactly for
\* fewer than 2 points, each before anything is produced; the GPS track is
\* validated before the target shape is parsed.
C9_InsufficientData ==
    /\ pc # "prepare_gps" =>
         IF GpsTooShort
         THEN /\ pc = "raised"
              /\ error = GpsRouteError
              /\ gps_norm = NoArr
              /\ svg_pts = NoArr
              /\ target_norm = NoArr
              /\ result = NoResult
         ELSE /\ error # GpsRouteError
              /\ Len(gps_norm.pts) = Len(gps_latlng.rows)
    /\ pc \notin {"prepare_gps", "prepare_target"} =>
         (error = NormalizeError <=> (svg_pts # NoArr /\ Len(svg_pts.pts) < 2))
    /\ error = NormalizeError =>
         pc = "raised" /\ target_norm = NoArr /\ result = NoResult

\* a one-point track with a target that cannot be parsed either: the GPS
\* error is the one raised
C9_Witness ==
    /\ pc = "raised"
    /\ error = GpsRouteError
    /\ Len(gps_latlng.rows) = 1
    /\ ~parse_svg_input(svg_path).ok

\* the track is 2 or more copies of one point
Degenerate ==
    /\ gps_latlng.width = 2
    /\ Len(gps_latlng.rows) >= 2
    /\ \A i \in 1 .. Len(gps_latlng.rows) : gps_latlng.rows[i] = gps_latlng.rows[1]

\* the target parses to an array that normalises
TargetUsable ==
    LET parsed == parse_svg_input(svg_path)
    IN  parsed.ok /\ Len(parsed.val.pts) >= 2

\* C10: a track of 2 or more identical points normalises to the all-zero
\* array, the search runs to its end against every usable target, every
\* angle scores the same and best_rotation_deg is 0.
C10_DegenerateTrack ==
    Degenerate =>
      /\ pc # "prepare_gps" =>
           /\ gps_norm.den > 0
           /\ Len(gps_norm.pts) = Len(gps_latlng.rows)
           /\ AllZero(gps_norm)
      /\ pc = "raised" => ~TargetUsable
      /\ \A e \in evals, f \in evals : RatEq(e.val, f.val)
      /\ pc = "done" => result # NoResult /\ result.best_rotation_deg = 0

\* three identical points searched to the end against a non-empty target mask
C10_Witness ==
    /\ Degenerate
    /\ Len(gps_latlng.rows) = 3
    /\ pc = "done"
    /\ tgt_mask # Zeros
    /\ Cardinality(FineEvals) >= 3

\* the loop values of range(best - coarse_step, best + coarse_step + 1, fine_step)
FineRange ==
    {coarse_best.angle - coarse_step + k * fine_step :
        k \in 0 .. ((2 * coarse_step) \div fine_step)}

\* some loop value of the fine pass reduces to the coarse best angle
CoarseBestRevisited == \E a \in FineRange : WrapAngle(a) = coarse_best.angle

\* C20 (as stated): for every coarse_step and fine_step the coarse best
\* angle is one of the angles evaluated in the fine pass.
C20_CoarseBestAlwaysInFinePass ==
    pc = "done" => \E e \in FineEvals : e.angle = coarse_best.angle

\* C20 (amended): the fine pass evaluates exactly best - coarse_step +
\* k * fine_step for k = 0, 1, ... up to best + coarse_step, each reduced
\* modulo 360; the coarse best angle is among them exactly when one of these
\* values is congruent to it modulo 360, which is always so when fine_step
\* divides coarse_step.
C20_FinePassAngles ==
    pc = "done" =>
      /\ {e.ang : e \in FineEvals} = FineRange
      /\ \A e \in FineEvals : e.angle = WrapAngle(e.ang)
      /\ (\E e \in FineEvals : e.angle = coarse_best.angle) <=> CoarseBestRevisited
      /\ coarse_step % fine_step = 0 => CoarseBestRevisited

\* a finished search whose fine step divides the coarse step, the coarse best
\* evaluated again in the fine pass
C20_Witness ==
    /\ pc = "done"
    /\ coarse_step % fine_step = 0
    /\ coarse_best.angle > 0
    /\ \E e \in FineEvals : e.ang = coarse_best.angle /\ ~e.took

\* ceil(a / b), the length of range(0, a, b)
CeilDiv(a, b) == (a + b - 1) \div b

\* C21: for positive steps the number of score evaluations is fixed by the
\* steps alone: ceil(360 / coarse_step) in the coarse pass and
\* floor(2 * coarse_step / fine_step) + 1 in the fine pass, with no early
\* exit; the loop variable is the start of its range plus the step times the
\* evaluations made, so both loops run out; the fine window is
\* [coarse best - coarse_step, coarse best + coarse_step] and stays there
\* when the fine pass updates the best angle.
C21_FixedEvaluationCounts ==
    LET coarse_count == CeilDiv(FullCircle, coarse_step)
        fine_count   == (2 * coarse_step) \div fine_step + 1
    IN  /\ Cardinality({e.ang : e \in CoarseEvals}) = Cardinality(CoarseEvals)
        /\ Cardinality({e.ang : e \in FineEvals}) = Cardinality(FineEvals)
        /\ pc = "coarse" =>
             /\ ang = coarse_step * Cardinality(CoarseEvals)
             /\ Cardinality(CoarseEvals) <= coarse_count
             /\ FineEvals = {}
        /\ pc \in {"fine", "done"} =>
             /\ Cardinality(CoarseEvals) = coarse_count
             /\ start = coarse_best.angle - coarse_step
             /\ end = coarse_best.angle + coarse_step
        /\ pc = "fine" =>
             /\ ang = start + fine_step * Cardinality(FineEvals)
             /\ Cardinality(FineEvals) <= fine_count
        /\ pc = "done" => Cardinality(FineEvals) = fine_count
        /\ pc = "raised" => evals = {}

\* a finished search in which the fine pass moved the best angle while the
\* window stayed around the coarse best, the fine step not dividing the
\* coarse step
C21_Witness ==
    /\ pc = "done"
    /\ coarse_step % fine_step # 0
    /\ best_angle # coarse_best.angle
    /\ start = coarse_best.angle - coarse_step
    /\ Cardinality(CoarseEvals) = CeilDiv(FullCircle, coarse_step)
    /\ Cardinality(FineEvals) = (2 * coarse_step) \div fine_step + 1

\* C27: for every input best_overlap_iou accepts, both coverage diagnostics
\* are percentages in [0, 100] (the returned fields are in tenths).
C27_CoveragesArePercentages ==
    pc = "done" =>
      /\ 0 <= result.coverage_of_target_pct
      /\ result.coverage_of_target_pct <= 1000
      /\ 0 <= result.coverage_of_gps_pct
      /\ result.coverage_of_gps_pct <= 1000

-----------------------------------------------------------------------------
(* Properties of the overlap scorer *)

\* C5: region_signed_score(candidate, target) is
\* 100 * (I - 1.0 * M - 0.3 * E) / |target| with I, M, E the sizes of the
\* pairwise disjoint cell sets candidate AND target, target AND NOT
\* candidate, candidate AND NOT target, I + M = |target|; it is 0 when
\* |target| = 0.
C5_RegionSignedFormula ==
    scorer.pc = "done" =>
      LET inter   == scorer.mask_a \cap scorer.mask_b
          missing == scorer.mask_b \ scorer.mask_a
          extra   == scorer.mask_a \ scorer.mask_b
          I == Cardinality(inter)
          M == Cardinality(missing)
          E == Cardinality(extra)
          T == Cardinality(scorer.mask_b)
      IN  /\ inter \cap missing = {} /\ inter \cap extra = {} /\ missing \cap extra = {}
          /\ I + M = T
          /\ scorer.signed.d > 0
          /\ T = 0 => scorer.signed.n = 0
          /\ T > 0 => scorer.signed.n * 10 * T
                        = 100 * (10 * I - 10 * M - 3 * E) * scorer.signed.d

\* a scored pair with overlap, missing and extra cells all present
C5_Witness ==
    /\ scorer.pc = "done"
    /\ scorer.mask_a \cap scorer.mask_b # {}
    /\ scorer.mask_b \ scorer.mask_a # {}
    /\ scorer.mask_a \ scorer.mask_b # {}

\* C6: iou(a, b) = |a AND b| / |a OR b| lies in [0, 1], is 0 for an empty
\* union and 1 for a = b non-empty; the reported overlap_iou_pct lies in
\* [0, 100].
C6_IouBounds ==
    scorer.pc \in {"scored", "done"} =>
      LET a == scorer.mask_a
          b == scorer.mask_b
      IN  /\ scorer.iou.d > 0
          /\ 0 <= scorer.iou.n /\ scorer.iou.n <= scorer.iou.d
          /\ a \cup b = {} => scorer.iou.n = 0
          /\ a \cup b # {} =>
               scorer.iou.n * Cardinality(a \cup b)
                 = Cardinality(a \cap b) * scorer.iou.d
          /\ (a = b /\ a # {}) => scorer.iou.n = scorer.iou.d
          /\ scorer.pct \in 0 .. 1000

\* a non-empty grid scored against itself: 100.0 percent
C6_Witness ==
    /\ scorer.pc = "scored"
    /\ scorer.mask_a = scorer.mask_b
    /\ scorer.mask_a # {}
    /\ scorer.pct = 1000

\* the signed scores a caller obtained for the pair: region_signed_score has
\* the two masks as its only parameters and no other signed score exists
SignedScores == {scorer.signed}

\* C19: for the same pair of grids a caller can obtain the asymmetric score
\* (w_missing = 1.0, w_extra = 0.3) and the symmetric one (w_missing =
\* w_extra = 1, unclamped).
C19_BothWeightingsSelectable ==
    (scorer.pc = "done" /\ scorer.mask_b # {}) =>
      LET I == Cardinality(scorer.mask_a \cap scorer.mask_b)
          M == Cardinality(scorer.mask_b \ scorer.mask_a)
          E == Cardinality(scorer.mask_a \ scorer.mask_b)
          T == Cardinality(scorer.mask_b)
      IN  /\ \E v \in SignedScores :
                v.n * 10 * T = 100 * (10 * I - 10 * M - 3 * E) * v.d
          /\ \E v \in SignedScores :
                v.n * T = 100 * (I - M - E) * v.d

-----------------------------------------------------------------------------
(* Properties of the shape parser *)

\* C8: every shape input that fails raises ValueError, and no input
\* returns an empty point sequence.
C8_MalformedShapeIsValueError ==
    /\ parser.pc = "raised" => parser.exc.type = "ValueError"
    /\ parser.pc = "returned" => parser.ret.pts # <<>>

\* the loop of parse_svg_path is about to run its body
InLoop == parser.pc = "loop" /\ parser.i < Len(parser.tokens)

\* tokens[i], the token the body is about to compare with the command letters
NextToken == Tok(parser.tokens, parser.i, 0)

\* the body is about to take the branch of one of the commands cs
AtCommand(cs) == InLoop /\ NextToken.k = "cmd" /\ NextToken.c \in cs

\* the token consumed j iterations of one token ago was a close-path
ClosedBefore(j) ==
    /\ parser.i >= j
    /\ Tok(parser.tokens, parser.i, -j).k = "cmd"
    /\ Tok(parser.tokens, parser.i, -j).c \in {"z", "Z"}

\* C22: on a close-path command with points recorded, a copy of the first
\* point is appended if and only if the first and last points are not
\* already coincident (np.allclose); afterwards the first and last points
\* coincide, at most one point was added, and a close-path repeated at once
\* appends nothing.
C22_ClosePathClosesOnce ==
    [][(AtCommand({"z", "Z"}) /\ parser.pts # <<>>) =>
         LET before == parser.pts
             after  == parser'.pts
             coincident == allclose(before[1], before[Len(before)], PathDen)
         IN  /\ parser'.pc = "loop"
             /\ parser'.i = parser.i + 1
             /\ after = IF coincident THEN before ELSE Append(before, before[1])
             /\ Len(after) <= Len(before) + 1
             /\ allclose(after[1], after[Len(after)], PathDen)
             /\ ClosePath(parser').pts = after
             /\ ClosedBefore(1) => after = before]_vars

\* an open path closed twice in a row: one copy of the first point was
\* appended, by the first close-path only
C22_Witness ==
    /\ parser.pc = "loop"
    /\ ClosedBefore(1)
    /\ ClosedBefore(2)
    /\ Len(parser.pts) = 3
    /\ parser.pts[3] = parser.pts[1]
    /\ parser.pts[2] # parser.pts[1]

\* the points the step appended
Appended == SubSeq(parser'.pts, Len(parser.pts) + 1, Len(parser'.pts))

\* the step ran a command to its end and kept the points recorded before it
CommandDone(advance) ==
    /\ parser'.pc = "loop"
    /\ parser'.i = parser.i + advance
    /\ Len(parser'.pts) >= Len(parser.pts)
    /\ SubSeq(parser'.pts, 1, Len(parser.pts)) = parser.pts

\* the j-th number after the command letter
NextArg(j) == Arg(parser.tokens, parser.i, j)

\* C23: a cubic command appends exactly 12 points and a quadratic exactly
\* 10, sampled at parameters in (0, 1], none at t = 0, the last at t = 1 and
\* equal to the end point of the segment, which becomes the current point;
\* a move, line, horizontal or vertical command appends exactly one point,
\* the new current point; horizontal keeps the current y and vertical the
\* current x.
C23_PointsPerCommand ==
    [][(InLoop /\ parser'.pc = "loop") =>
         /\ AtCommand({"C"}) =>
              /\ CommandDone(7)
              /\ Len(Appended) = 12
              /\ \A j \in 1 .. 12 :
                   /\ CubicT[j] > 0 /\ CubicT[j] <= LinspaceDen
                   /\ Appended[j] =
                        cubic(parser.cur, <<NextArg(1), NextArg(2)>>,
                              <<NextArg(3), NextArg(4)>>,
                              <<NextArg(5), NextArg(6)>>, CubicT[j])
              /\ CubicT[12] = LinspaceDen
              /\ parser'.cur = <<NextArg(5), NextArg(6)>>
              /\ Appended[12] = Float2(parser'.cur)
         /\ AtCommand({"Q"}) =>
              /\ CommandDone(5)
              /\ Len(Appended) = 10
              /\ \A j \in 1 .. 10 :
                   /\ QuadT[j] > 0 /\ QuadT[j] <= LinspaceDen
                   /\ Appended[j] =
                        quad(parser.cur, <<NextArg(1), NextArg(2)>>,
                             <<NextArg(3), NextArg(4)>>, QuadT[j])
              /\ QuadT[10] = LinspaceDen
              /\ parser'.cur = <<NextArg(3), NextArg(4)>>
              /\ Appended[10] = Float2(parser'.cur)
         /\ AtCommand({"M", "L"}) =>
              /\ CommandDone(3)
              /\ parser'.cur = <<NextArg(1), NextArg(2)>>
              /\ Appended = <<Float2(parser'.cur)>>
         /\ AtCommand({"H"}) =>
              /\ CommandDone(2)
              /\ parser'.cur = <<NextArg(1), parser.cur[2]>>
              /\ Appended = <<Float2(parser'.cur)>>
         /\ AtCommand({"V"}) =>
              /\ CommandDone(2)
              /\ parser'.cur = <<parser.cur[1], NextArg(1)>>
              /\ Appended = <<Float2(parser'.cur)>>]_vars

\* a vertical move to (0, 1) followed by a cubic from there to (1, 0): 13
\* points, the second off the start point, the last the end of the cubic
C23_Witness ==
    /\ parser.pc = "loop"
    /\ parser.i = 9
    /\ Tok(parser.tokens, 0, 0) = Cmd("V")
    /\ Tok(parser.tokens, 2, 0) = Cmd("C")
    /\ Len(parser.pts) = 13
    /\ parser.pts[1] = Float2(<<0, 1>>)
    /\ parser.pts[2] # parser.pts[1]
    /\ parser.pts[13] = Float2(<<1, 0>>)
    /\ parser.cur = <<1, 0>>

\* the call of parse_svg_input is over
ParserFinished == parser.pc \in {"returned", "raised"}

\* how far the branch of the token about to be read moves the index
Advance ==
    IF NextToken.k # "cmd" THEN 1
    ELSE CASE NextToken.c \in {"M", "L"} -> 3
           [] NextToken.c \in {"H", "V"} -> 2
           [] NextToken.c = "C" -> 7
           [] NextToken.c = "Q" -> 5
           [] OTHER -> 1

\* C28: the token loop of parse_svg_path terminates on every token list:
\* an iteration that does not raise advances the index by 3, 2, 7, 5 or 1
\* according to its branch and never past the end of the list; a token that
\* is not a command is skipped alone, no point added and the current point
\* kept; the call ends by returning at least one point or by raising.
C28_TokenLoopTerminates ==
    /\ [][InLoop =>
            \/ parser'.pc = "raised" /\ parser'.ret = NoArr
            \/ /\ parser'.pc = "loop"
               /\ parser'.i = parser.i + Advance
               /\ parser'.i <= Len(parser.tokens)
               /\ parser'.tokens = parser.tokens
               /\ NextToken.k # "cmd" =>
                    /\ parser'.pts = parser.pts
                    /\ parser'.cur = parser.cur]_vars
    /\ [](parser.pc = "returned" => Len(parser.ret.pts) >= 1)
    /\ <>ParserFinished

\* 'L 1 0 1': the number after the line's pair was skipped and the call
\* returned the one point
C28_Witness ==
    /\ parser.pc = "returned"
    /\ parser.tokens = <<Cmd("L"), Num(1), Num(0), Num(1)>>
    /\ parser.i = 4
    /\ Len(parser.ret.pts) = 1

\* the branch parse_svg_input takes on the markup s
BranchOf(s) ==
    IF s.d # <<>> THEN "path"
    ELSE IF s.ellipse # <<>> THEN "ellipse"
    ELSE IF s.circle # <<>> THEN "circle"
    ELSE IF s.rect # <<>> THEN "rect"
    ELSE "none"

\* what C24 says of a call on markup that is over, but for the closure of
\* the returned sequence
MarkupBranches ==
    (parser.svg_text.xml /\ ParserFinished) =>
      LET s   == parser.svg_text
          pts == parser.ret.pts
      IN  /\ BranchOf(s) = "path" =>
               Outcome(parser) = parse_svg_path(s.d)
          /\ BranchOf(s) = "ellipse" =>
               /\ parser.pc = "returned"
               /\ parser.ret = EllipsePoints(s.ellipse[1], s.ellipse[2],
                                             s.ellipse[3], s.ellipse[4])
               /\ Len(pts) = 256
          /\ BranchOf(s) = "circle" =>
               /\ parser.pc = "returned"
               /\ parser.ret = EllipsePoints(s.circle[1], s.circle[2],
                                             s.circle[3], s.circle[3])
               /\ Len(pts) = 256
          /\ BranchOf(s) = "rect" =>
               /\ parser.pc = "returned"
               /\ Len(pts) = 5
               /\ \A j \in 1 .. 4 : \A k \in 1 .. 4 : j # k => pts[j] # pts[k]
          /\ BranchOf(s) = "none" => parser.pc = "raised"

\* the first and the last point returned are the same numbers
ClosedExactly ==
    /\ parser.ret.pts[1] = parser.ret.pts[Len(parser.ret.pts)]
    /\ parser.gap = 0

\* the first and the last point returned satisfy np.allclose: the samples
\* agree and the drop of the last one is within atol = 1e-8 (a unit in the
\* last place is 1.8e-15)
ClosedWithinTolerance ==
    /\ allclose(parser.ret.pts[1], parser.ret.pts[Len(parser.ret.pts)],
                parser.ret.den)
    /\ parser.gap * 18 <= 10000000

\* C24 (as stated): on markup parse_svg_input uses the path data if a d
\* attribute is present, otherwise the ellipse, otherwise the circle,
\* otherwise the rectangle; an ellipse or circle yields 256 points and a
\* rectangle its 5 corner points, and in every primitive case the first
\* point returned equals the last.
C24_PrimitivesClosedExactly ==
    /\ MarkupBranches
    /\ (parser.svg_text.xml /\ parser.pc = "returned"
          /\ BranchOf(parser.svg_text) \in {"ellipse", "circle", "rect"}) =>
         ClosedExactly

\* C24 (amended): the same order of branches and the same counts; a
\* rectangle's first and last points are equal, an ellipse's or circle's
\* agree within the tolerance of np.allclose.
C24_PrimitivesClosedWithinTolerance ==
    /\ MarkupBranches
    /\ (parser.svg_text.xml /\ parser.pc = "returned") =>
         /\ BranchOf(parser.svg_text) = "rect" => ClosedExactly
         /\ BranchOf(parser.svg_text) \in {"ellipse", "circle"} =>
              ClosedWithinTolerance

\* markup with an ellipse of radii 9 and 6 about (12, 12) and a circle and
\* a rectangle after it: the 256 points of the ellipse are returned, the last
\* a unit in the last place below the first
C24_Witness ==
    /\ parser.pc = "returned"
    /\ parser.svg_text.xml
    /\ parser.svg_text.d = <<>>
    /\ parser.svg_text.ellipse = <<12, 12, 9, 6>>
    /\ parser.svg_text.circle # <<>>
    /\ parser.svg_text.rect # <<>>
    /\ Len(parser.ret.pts) = 256
    /\ parser.gap = 1

-----------------------------------------------------------------------------
(* Properties of the rasteriser *)

\* a grid_size x grid_size array of booleans
IsBooleanGrid(M, grid_size) ==
    /\ DOMAIN M = 1 .. grid_size
    /\ \A r \in 1 .. grid_size :
         /\ DOMAIN M[r] = 1 .. grid_size
         /\ \A c \in 1 .. grid_size : M[r][c] \in BOOLEAN

\* C25: polygon_mask returns a G x G all-false grid for fewer than 3 points;
\* for every input it returns a G x G boolean grid, and so does
\* gps_path_mask for the same G; cell [r][c] of either grid is the test of
\* the one point (lin[c], lin[r]) of np.linspace(-1, 1, G), so the filled
\* and the stroked mask can be compared cell by cell.
C25_MasksShareGridAndMapping ==
    LET G   == rasterizer.grid_size
        lin == linspace(G, rasterizer.poly_norm.den)
    IN  /\ rasterizer.pc \in {"filled", "stroked"} =>
             /\ IsBooleanGrid(rasterizer.filled, G)
             /\ Len(rasterizer.poly_norm.pts) < 3 =>
                  \A r, c \in 1 .. G : ~rasterizer.filled[r][c]
             /\ Len(rasterizer.poly_norm.pts) >= 3 =>
                  \A r, c \in 1 .. G :
                    rasterizer.filled[r][c]
                      = point_in_path(EnsureClosed(rasterizer.poly_norm.pts),
                                      <<lin[c], lin[r]>>)
        /\ rasterizer.pc = "stroked" =>
             /\ IsBooleanGrid(rasterizer.stroked, G)
             /\ \A r, c \in 1 .. G :
                  rasterizer.stroked[r][c]
                    = \E i \in 1 .. Len(rasterizer.gps_norm.pts) - 1 :
                        segment_covers(rasterizer.gps_norm.pts[i],
                                       rasterizer.gps_norm.pts[i + 1],
                                       <<lin[c], lin[r]>>,
                                       rasterizer.stroke_norm)

\* the wide rectangle filled and stroked on the 5 x 5 grid: the filled grid
\* is not its own transpose, and a cell is on in both grids
C25_Witness ==
    /\ rasterizer.pc = "stroked"
    /\ rasterizer.grid_size = 5
    /\ Len(rasterizer.poly_norm.pts) = 4
    /\ rasterizer.gps_norm = rasterizer.poly_norm
    /\ \E r, c \in 1 .. 5 : rasterizer.filled[r][c] /\ ~rasterizer.filled[c][r]
    /\ \E r, c \in 1 .. 5 : rasterizer.filled[r][c] /\ rasterizer.stroked[r][c]

-----------------------------------------------------------------------------
(* Properties of the request handler *)

\* C29: every temporary GPS file grade_activity created is deleted before
\* the handler returns, on the success paths and on every error path.
C29_TempFileAlwaysDeleted ==
    handler.pc = "returned" => handler.files = {}

=============================================================================
